---------------------------- MODULE Spec2Model ----------------------------
(***************************************************************************)
(* State-machine model of the knowledge-augmented response pipeline of     *)
(* smart-customer-agent:                                                   *)
(*   - AdvancedCacheManager   (agent/tools/advanced_cache_tool.py)         *)
(*   - DeepSeekClient         (agent/models/deepseek_client.py)            *)
(*   - SmartConcurrencyManager / EnhancedCustomerServiceAgent.process_case *)
(*                            (agent/agents/enhanced_customer_agent.py)    *)
(* Each component has its own specification (SpecCache, SpecClient, ...)   *)
(* over the shared variable tuple; a component's actions leave the other   *)
(* components' variables unchanged.                                        *)
(***************************************************************************)
EXTENDS Integers, Sequences, FiniteSets, TLC

(***************************************************************************)
(* Bounds of the model (not program constants).                            *)
(***************************************************************************)
\* last instant of the modelled clock (time.time(), in abstract seconds)
MaxClock ==
    2
\* cap on stats['evictions'], an unbounded counter in the code
MaxEvictions ==
    3
\* SpecCache explores the states whose tracked memory bytes stay within
\* this cap (the tracked total drifts upwards without bound in the code)
MaxTracked ==
    6

(***************************************************************************)
(*                      AdvancedCacheManager                               *)
(***************************************************************************)
\* config 'memory_max_size' (scaled: the code's default is 100 MB)
memory_max_size ==
    30
\* config 'default_ttl' (scaled: the code's default is 3600 s)
default_ttl ==
    1

\* expires_at = None
NoExpiry ==
    -1
\* get()'s default return value (None)
Absent ==
    "absent"

\* raw keys handed to get/set/delete
Keys ==
    {"user:1", "user:2", "sys:1"}
\* cached values; _estimate_size gives their pickled size
Values ==
    {"a", "bb", "big"}
\* ttl arguments: 0 stands for None/0 (falls back to default_ttl),
\* a negative ttl yields an entry that never expires
TTLs ==
    {0, -1}
Priorities ==
    {"high", "normal", "persistent"}

\* hashlib.md5(key).hexdigest(): a fixed-length digest that shares no
\* substring structure with the raw key and is collision-free on Keys
_normalize_key(key) ==
    CASE key = "user:1" -> "d41f"
      [] key = "user:2" -> "9e07"
      [] key = "sys:1"  -> "c3b2"
      [] OTHER          -> "ffff"

Digests ==
    {_normalize_key(k) : k \in Keys}

\* len(pickle.dumps(value))
_estimate_size(value) ==
    CASE value = "a"   -> 1
      [] value = "bb"  -> 2
      [] value = "big" -> 3
      [] OTHER         -> 0

\* a slot of the disk tier that holds no file
NoEntry ==
    [value |-> Absent, expires_at |-> NoExpiry, size_bytes |-> 0]

VARIABLES
    now,             \* time.time()
    memory_cache,    \* OrderedDict: sequence of entries, oldest first
    disk_cache,      \* cache_dir/<digest>.cache files: digest -> entry
    stats_size_mem,  \* stats['size_bytes']['memory']
    stats_evictions, \* stats['evictions']
    hist,            \* history: the last cache operation and its result
    last_set,        \* history: raw key -> the entry of its latest set
    touch_order      \* history: digests in order of last touch, oldest first

cacheVars ==
    <<now, memory_cache, disk_cache, stats_size_mem, stats_evictions,
      hist, last_set, touch_order>>

\* CacheEntry(...) as built by set(); created_at, access_count, last_access
\* and metadata never influence control flow and are not modelled
CacheEntry(cache_key, value, ttl) ==
    [key        |-> cache_key,
     value      |-> value,
     expires_at |-> IF ttl > 0 THEN now + ttl ELSE NoExpiry,
     size_bytes |-> _estimate_size(value)]

_is_expired(entry) ==
    IF entry.expires_at = NoExpiry THEN FALSE ELSE now > entry.expires_at

MemKeys(mem) ==
    {mem[i].key : i \in 1..Len(mem)}

MemIndex(mem, cache_key) ==
    CHOOSE i \in 1..Len(mem) : mem[i].key = cache_key

RemoveAt(s, i) ==
    SubSeq(s, 1, i - 1) \o SubSeq(s, i + 1, Len(s))

RemoveKey(mem, cache_key) ==
    IF cache_key \in MemKeys(mem) THEN RemoveAt(mem, MemIndex(mem, cache_key)) ELSE mem

\* the capacity loop of _set_memory_cache: pop the oldest entry while the
\* tracked total plus the new entry exceeds the budget
RECURSIVE EvictLoop(_, _, _, _)
EvictLoop(mem, size, evictions, need) ==
    IF size + need > memory_max_size /\ Len(mem) > 0
    THEN EvictLoop(Tail(mem), size - Head(mem).size_bytes, evictions + 1, need)
    ELSE [mem |-> mem, size |-> size, evictions |-> evictions]

\* self.memory_cache[key] = entry on an OrderedDict: an existing key keeps
\* its position, a new key goes to the end
OrderedDictStore(mem, entry) ==
    IF entry.key \in MemKeys(mem)
    THEN [mem EXCEPT ![MemIndex(mem, entry.key)] = entry]
    ELSE Append(mem, entry)

\* _set_memory_cache(key, entry): the state after the call
_set_memory_cache(mem, size, evictions, entry) ==
    LET e == EvictLoop(mem, size, evictions, entry.size_bytes)
    IN  [mem       |-> OrderedDictStore(e.mem, entry),
         size      |-> e.size + entry.size_bytes,
         evictions |-> e.evictions]

\* history helper: move a digest to the most-recent end of touch_order
Touch(order, cache_key) ==
    SelectSeq(order, LAMBDA d : d # cache_key) \o <<cache_key>>

\* set() tries the memory tier for these priorities and sizes
MemoryEligible(priority, entry) ==
    priority \in {"high", "normal"} /\ entry.size_bytes < memory_max_size \div 10

\* set(key, value, ttl, priority); redis_client is None (redis disabled,
\* the default configuration)
CacheSet(key, value, ttlArg, priority) ==
    LET cache_key == _normalize_key(key)
        ttl       == IF ttlArg = 0 THEN default_ttl ELSE ttlArg
        entry     == CacheEntry(cache_key, value, ttl)
        inMem     == MemoryEligible(priority, entry)
        m         == _set_memory_cache(memory_cache, stats_size_mem, stats_evictions, entry)
        stored    == inMem
    IN  /\ (inMem => m.evictions <= MaxEvictions)
        /\ IF inMem
           THEN /\ memory_cache' = m.mem
                /\ stats_size_mem' = m.size
                /\ stats_evictions' = m.evictions
           ELSE UNCHANGED <<memory_cache, stats_size_mem, stats_evictions>>
        /\ disk_cache' = IF ~stored \/ priority = "persistent"
                         THEN [disk_cache EXCEPT ![cache_key] =
                                 [value |-> entry.value, expires_at |-> entry.expires_at,
                                  size_bytes |-> entry.size_bytes]]
                         ELSE disk_cache
        /\ UNCHANGED now

\* the parts of get(key): memory tier first, then the disk tier
GetParts(key) ==
    LET cache_key == _normalize_key(key)
        inMem     == cache_key \in MemKeys(memory_cache)
        mentry    == memory_cache[MemIndex(memory_cache, cache_key)]
        memHit    == inMem /\ ~_is_expired(mentry)
        \* an expired memory entry is deleted; the tracked size is not touched
        mem1      == IF inMem /\ ~memHit THEN RemoveKey(memory_cache, cache_key)
                     ELSE memory_cache
        dentry    == disk_cache[cache_key]
        diskHit   == ~memHit /\ dentry # NoEntry /\ ~_is_expired(dentry)
    IN  [memHit  |-> memHit,
         diskHit |-> diskHit,
         mem1    |-> mem1,
         ret     |-> IF memHit THEN mentry.value
                     ELSE IF diskHit THEN dentry.value ELSE Absent,
         ret_expires |-> IF memHit THEN mentry.expires_at
                         ELSE IF diskHit THEN dentry.expires_at ELSE NoExpiry]

\* get(key): a memory hit moves the entry to the end; a disk hit is
\* promoted into the memory tier
CacheGet(key) ==
    LET cache_key == _normalize_key(key)
        g         == GetParts(key)
        dentry    == disk_cache[cache_key]
        promoted  == _set_memory_cache(g.mem1, stats_size_mem, stats_evictions,
                        [key |-> cache_key, value |-> dentry.value,
                         expires_at |-> dentry.expires_at,
                         size_bytes |-> dentry.size_bytes])
    IN  /\ (g.diskHit => promoted.evictions <= MaxEvictions)
        /\ memory_cache' =
             IF g.memHit
             THEN RemoveKey(memory_cache, cache_key)
                    \o <<memory_cache[MemIndex(memory_cache, cache_key)]>>
             ELSE IF g.diskHit THEN promoted.mem ELSE g.mem1
        /\ stats_size_mem' = IF g.diskHit THEN promoted.size ELSE stats_size_mem
        /\ stats_evictions' = IF g.diskHit THEN promoted.evictions ELSE stats_evictions
        /\ UNCHANGED <<now, disk_cache>>

\* delete(key): the memory entry and the disk file go; the tracked size stays
CacheDelete(key) ==
    LET cache_key == _normalize_key(key)
    IN  /\ cache_key \in MemKeys(memory_cache) \/ disk_cache[cache_key] # NoEntry
        /\ memory_cache' = RemoveKey(memory_cache, cache_key)
        /\ disk_cache' = [disk_cache EXCEPT ![cache_key] = NoEntry]
        /\ UNCHANGED <<now, stats_size_mem, stats_evictions>>

\* clear() without a pattern: memory_cache.clear() and every *.cache file
CacheClearAll ==
    /\ memory_cache # <<>> \/ \E d \in Digests : disk_cache[d] # NoEntry
    /\ memory_cache' = <<>>
    /\ disk_cache' = [d \in Digests |-> NoEntry]
    /\ UNCHANGED <<now, stats_size_mem, stats_evictions>>

\* the patterns handed to clear(pattern)
Patterns ==
    {"user", "1", "d4"}

\* the characters of the raw keys, of their digests and of the patterns
chars(text) ==
    CASE text = "user:1" -> <<"u", "s", "e", "r", ":", "1">>
      [] text = "user:2" -> <<"u", "s", "e", "r", ":", "2">>
      [] text = "sys:1"  -> <<"s", "y", "s", ":", "1">>
      [] text = "d41f"   -> <<"d", "4", "1", "f">>
      [] text = "9e07"   -> <<"9", "e", "0", "7">>
      [] text = "c3b2"   -> <<"c", "3", "b", "2">>
      [] text = "user"   -> <<"u", "s", "e", "r">>
      [] text = "1"      -> <<"1">>
      [] text = "d4"     -> <<"d", "4">>
      [] OTHER           -> <<>>

\* 'pattern in key' on strings
contains(key, pattern) ==
    \E i \in 0..(Len(chars(key)) - Len(chars(pattern))) :
        SubSeq(chars(key), i + 1, i + Len(chars(pattern))) = chars(pattern)

\* the keys clear(pattern) collects: those of memory_cache, which are digests
keys_to_delete(pattern) ==
    {cache_key \in MemKeys(memory_cache) : contains(cache_key, pattern)}

\* clear(pattern): self.delete(key) for each collected key; delete
\* normalizes its argument again, so it looks for the digest of the digest
CacheClearPattern(pattern) ==
    LET targets == {_normalize_key(cache_key) : cache_key \in keys_to_delete(pattern)}
    IN  /\ memory_cache' = SelectSeq(memory_cache, LAMBDA e : e.key \notin targets)
        /\ disk_cache' = [d \in Digests |->
                            IF d \in targets THEN NoEntry ELSE disk_cache[d]]
        /\ UNCHANGED <<now, stats_size_mem, stats_evictions>>

RECURSIVE SumSizes(_)
SumSizes(mem) ==
    IF mem = <<>> THEN 0 ELSE Head(mem).size_bytes + SumSizes(Tail(mem))

\* _cleanup_expired(), run by the background thread under the lock
CleanupExpired ==
    LET expired == SelectSeq(memory_cache, LAMBDA e : _is_expired(e))
    IN  /\ expired # <<>> \/ \E d \in Digests :
                                disk_cache[d] # NoEntry /\ _is_expired(disk_cache[d])
        /\ memory_cache' = SelectSeq(memory_cache, LAMBDA e : ~_is_expired(e))
        /\ stats_size_mem' = stats_size_mem - SumSizes(expired)
        /\ disk_cache' = [d \in Digests |->
                            IF disk_cache[d] # NoEntry /\ _is_expired(disk_cache[d])
                            THEN NoEntry ELSE disk_cache[d]]
        /\ UNCHANGED <<now, stats_evictions>>

\* the wall clock advances
ClockTick ==
    /\ now < MaxClock
    /\ now' = now + 1
    /\ UNCHANGED <<memory_cache, disk_cache, stats_size_mem, stats_evictions>>

\* AdvancedCacheManager.__init__ on an empty cache directory
CacheInit ==
    /\ now = 0
    /\ memory_cache = <<>>
    /\ disk_cache = [d \in Digests |-> NoEntry]
    /\ stats_size_mem = 0
    /\ stats_evictions = 0
    /\ hist = [op |-> "init", key |-> "", ret |-> Absent, ret_expires |-> NoExpiry]
    /\ last_set = [k \in Keys |-> NoEntry]
    /\ touch_order = <<>>

(***************************************************************************)
(*                           DeepSeekClient                                *)
(***************************************************************************)
\* self._max_failures
_max_failures ==
    3
\* asyncio.Semaphore(3)
ClientSemaphoreLimit ==
    3
\* max_retries of _retry_with_backoff
max_retries ==
    3
\* concurrent call_model invocations (tasks) in the model
NumCalls ==
    2

\* concurrent process_case calls (tasks) in the model
NumRequests ==
    4

\* the tasks of SpecClient, calling call_model directly
ClientTasks ==
    1..NumCalls

\* the tasks of SpecAgent, calling process_case
RequestIds ==
    1..NumRequests

\* every task that can be inside call_model
CallIds ==
    ClientTasks \cup RequestIds

\* requests (model, messages, temperature) as seen by _generate_cache_key
Requests ==
    {[model |-> "deepseek/deepseek-v3.2", msg |-> "m1"],
     [model |-> "nonexistent-model", msg |-> "m1"],
     [model |-> "deepseek/deepseek-v3.2-think", msg |-> "rag"]}

\* model_variants of call_model: the primary, then the fixed whitelist
model_variants(model) ==
    <<model, "deepseek/deepseek-v3.2", "deepseek/deepseek-v3.2-think",
      "deepseek/deepseek-v3.1">>

\* what one network attempt (_make_api_call + validation) can end in:
\* a valid body, an invalid body (api_call returns None), HTTP 503, HTTP 429,
\* another HTTP status error, or any other exception (timeout, connection)
Outcomes ==
    {"ok", "invalid", "503", "429", "http_error", "exception"}

\* a network attempt may also end in an HTTP 200 body whose message content
\* is non-empty but not a string (a number, a list of parts):
\* _validate_api_response tests the content for truth only
OutcomesBody ==
    Outcomes \cup {"ok_nontext"}

VARIABLES
    network_status,        \* self._network_status
    consecutive_failures,  \* self._consecutive_failures
    client_sem,            \* self._semaphore._value
    req_cache,             \* self._cache: request -> holds an unexpired entry
    calls,                 \* the call_model invocations (tasks)
    endpoint_ok,           \* environment: the endpoint answers every request
    failed_run             \* history: failed invocations since the last success

clientVars ==
    <<network_status, consecutive_failures, client_sem, req_cache, calls,
      endpoint_ok, failed_run>>

IdleCall ==
    [pc |-> "idle", req |-> [model |-> "", msg |-> ""], variant |-> 0, attempt |-> 0,
     started_degraded |-> FALSE, cache_hit |-> FALSE, attempted |-> FALSE,
     result |-> "none"]

\* _get_from_cache(cache_key): an entry younger than _cache_ttl
_get_from_cache_Miss(req) ==
    FALSE

_get_from_cache(req) ==
    req_cache[req]

\* step 2 of call_model: the degraded short-circuit
DegradedShortCircuit_Never(status) ==
    FALSE

DegradedShortCircuit(status) ==
    status = "degraded"

\* call_model up to the semaphore: cache lookup, degraded check, truncation
ClientStart(c, req) ==
    /\ calls[c].pc = "idle"
    /\ LET base == [IdleCall EXCEPT !.req = req,
                                    !.started_degraded = (network_status = "degraded"),
                                    !.cache_hit = req_cache[req]]
       IN  calls' = [calls EXCEPT ![c] =
             IF _get_from_cache(req)
             THEN [base EXCEPT !.pc = "done", !.result = "cached"]
             ELSE IF DegradedShortCircuit(network_status)
             THEN [base EXCEPT !.pc = "done", !.result = "offline"]
             ELSE [base EXCEPT !.pc = "wait_sem"]]
    /\ UNCHANGED <<network_status, consecutive_failures, client_sem, req_cache,
                   endpoint_ok, failed_run>>

\* async with self._semaphore: acquire
ClientAcquire(c) ==
    /\ calls[c].pc = "wait_sem"
    /\ client_sem > 0
    /\ client_sem' = client_sem - 1
    /\ calls' = [calls EXCEPT ![c].pc = "rate_limit"]
    /\ UNCHANGED <<network_status, consecutive_failures, req_cache, endpoint_ok,
                   failed_run>>

\* _wait_for_rate_limit(model) returns; the first variant's first attempt
\* is sent
ClientRateLimitDone(c) ==
    /\ calls[c].pc = "rate_limit"
    /\ calls' = [calls EXCEPT ![c].pc = "request", ![c].variant = 1,
                              ![c].attempt = 0, ![c].attempted = TRUE]
    /\ UNCHANGED <<network_status, consecutive_failures, client_sem, req_cache,
                   endpoint_ok, failed_run>>

\* the tail of _retry_with_backoff after the attempt loop: count the failure
FailuresAfterVariant ==
    consecutive_failures + 1

StatusAfterVariant ==
    IF FailuresAfterVariant >= _max_failures THEN "degraded" ELSE network_status

\* one network attempt of _retry_with_backoff(api_call) ends
ClientReply(c, outcome) ==
    /\ calls[c].pc = "request"
    /\ endpoint_ok => outcome = "ok"
    /\ CASE outcome = "ok" ->
              \* reset, format, save to the cache, leave the semaphore
              /\ consecutive_failures' = 0
              /\ network_status' = "healthy"
              /\ req_cache' = [req_cache EXCEPT ![calls[c].req] = TRUE]
              /\ client_sem' = client_sem + 1
              /\ calls' = [calls EXCEPT ![c].pc = "done", ![c].result = "model"]
              /\ failed_run' = 0
         [] outcome = "ok_nontext" ->
              \* reset as for a valid body; _format_response then calls
              \* response.strip() on the content: AttributeError leaves
              \* call_model through 'async with', nothing is cached
              /\ consecutive_failures' = 0
              /\ network_status' = "healthy"
              /\ client_sem' = client_sem + 1
              /\ calls' = [calls EXCEPT ![c].pc = "done", ![c].result = "raised"]
              /\ failed_run' = 0
              /\ UNCHANGED req_cache
         [] outcome = "invalid" /\ calls[c].attempt + 1 < max_retries ->
              \* result is None: the loop goes straight to the next attempt
              /\ calls' = [calls EXCEPT ![c].attempt = @ + 1]
              /\ UNCHANGED <<consecutive_failures, network_status, req_cache,
                             client_sem, failed_run>>
         [] outcome = "http_error"
            \/ (outcome = "invalid" /\ calls[c].attempt + 1 >= max_retries) ->
              \* break (or loop exhausted): failure counted, then sleep(0.5)
              /\ consecutive_failures' = FailuresAfterVariant
              /\ network_status' = StatusAfterVariant
              /\ calls' = [calls EXCEPT ![c].pc = "failover_sleep"]
              /\ UNCHANGED <<req_cache, client_sem, failed_run>>
         [] outcome \in {"503", "429", "exception"} ->
              \* await asyncio.sleep(wait_time); continue
              /\ calls' = [calls EXCEPT ![c].pc = "backoff"]
              /\ UNCHANGED <<consecutive_failures, network_status, req_cache,
                             client_sem, failed_run>>
    /\ UNCHANGED endpoint_ok

\* the backoff sleep of _retry_with_backoff ends: next attempt, or the
\* loop is exhausted and the failure is counted
ClientBackoffDone(c) ==
    /\ calls[c].pc = "backoff"
    /\ IF calls[c].attempt + 1 < max_retries
       THEN /\ calls' = [calls EXCEPT ![c].pc = "request", ![c].attempt = @ + 1]
            /\ UNCHANGED <<consecutive_failures, network_status>>
       ELSE /\ consecutive_failures' = FailuresAfterVariant
            /\ network_status' = StatusAfterVariant
            /\ calls' = [calls EXCEPT ![c].pc = "failover_sleep"]
    /\ UNCHANGED <<client_sem, req_cache, endpoint_ok, failed_run>>

\* 'for model_to_try in model_variants': the position after a failed one
NextVariant_Skip(variant) ==
    variant + 2

NextVariant(variant) ==
    variant + 1

\* asyncio.sleep(0.5) after a failed variant ends: the next variant, or
\* the offline reply once every variant has failed
ClientFailover(c) ==
    /\ calls[c].pc = "failover_sleep"
    /\ IF calls[c].variant < Len(model_variants(calls[c].req.model))
       THEN /\ calls' = [calls EXCEPT ![c].pc = "request",
                                      ![c].variant = NextVariant(@),
                                      ![c].attempt = 0]
            /\ UNCHANGED <<client_sem, failed_run>>
       ELSE /\ calls' = [calls EXCEPT ![c].pc = "done", ![c].result = "offline"]
            /\ client_sem' = client_sem + 1
            /\ failed_run' = failed_run + 1
    /\ UNCHANGED <<network_status, consecutive_failures, req_cache, endpoint_ok>>

\* the caller takes the result; the task slot is free for a new invocation
ClientReturn(c) ==
    /\ calls[c].pc = "done"
    /\ calls' = [calls EXCEPT ![c] = IdleCall]
    /\ UNCHANGED <<network_status, consecutive_failures, client_sem, req_cache,
                   endpoint_ok, failed_run>>

\* time passes beyond _cache_ttl for an entry of the request cache
ClientCacheExpire(req) ==
    /\ req_cache[req]
    /\ req_cache' = [req_cache EXCEPT ![req] = FALSE]
    /\ UNCHANGED <<network_status, consecutive_failures, client_sem, calls,
                   endpoint_ok, failed_run>>

\* environment: from now on the endpoint answers every request
EndpointRecovers ==
    /\ ~endpoint_ok
    /\ endpoint_ok' = TRUE
    /\ UNCHANGED <<network_status, consecutive_failures, client_sem, req_cache,
                   calls, failed_run>>

\* DeepSeekClient.__init__
ClientInit ==
    /\ network_status = "unknown"
    /\ consecutive_failures = 0
    /\ client_sem = ClientSemaphoreLimit
    /\ req_cache = [r \in Requests |-> FALSE]
    /\ calls = [c \in CallIds |-> IdleCall]
    /\ endpoint_ok = FALSE
    /\ failed_run = 0

(***************************************************************************)
(*        DeepSeekClient with the clock: rate limit and sleeps             *)
(* Time is counted in half seconds, the granularity of the code's sleeps.  *)
(***************************************************************************)
\* last instant of the client's clock (in half seconds)
MaxTime ==
    4

\* self._min_interval = 1.0 s
_min_interval ==
    2
\* asyncio.sleep(0.5) after a failed variant
failover_sleep ==
    1

\* no timestamp (model not in _last_request_time); no sleep pending
Never ==
    -1

\* every model identifier a request can be sent to
ModelIds ==
    UNION {{model_variants(r.model)[i] : i \in 1..Len(model_variants(r.model))}
              : r \in Requests}

\* wait_time of _retry_with_backoff, in half seconds:
\* 429 -> (2 ** attempt) * 2 s;  503, other exceptions ->
\* (2 ** attempt) + attempt * 0.5 s
backoff_wait(outcome, attempt) ==
    IF outcome = "429" THEN 4 * (2 ^ attempt) ELSE 2 * (2 ^ attempt) + attempt

VARIABLES
    clock,              \* time.time() of the client, in half seconds
    last_request_time,  \* self._last_request_time: model -> time, or Never
    wake,               \* task -> end of its pending asyncio.sleep, or Never
    last_sent           \* history: model -> start of the latest request to it

timeVars ==
    <<clock, last_request_time, wake, last_sent>>

TimeInit ==
    /\ clock = 0
    /\ last_request_time = [m \in ModelIds |-> Never]
    /\ wake = [c \in CallIds |-> Never]
    /\ last_sent = [m \in ModelIds |-> Never]

(***************************************************************************)
(*   DeepSeekClient: the record of what one invocation has attempted       *)
(***************************************************************************)
VARIABLES
    failed_variants,  \* history: task -> positions of model_variants that failed
    tries,            \* history: task -> model -> network attempts sent to it
    nonretryable      \* history: task -> models that answered a non-retryable
                      \* HTTP error in this invocation

traceVars ==
    <<failed_variants, tries, nonretryable>>

NoTries ==
    [m \in ModelIds |-> 0]

TraceInit ==
    /\ failed_variants = [c \in CallIds |-> {}]
    /\ tries = [c \in CallIds |-> NoTries]
    /\ nonretryable = [c \in CallIds |-> {}]

(***************************************************************************)
(*    EnhancedRouter, SmartConcurrencyManager and process_case             *)
(***************************************************************************)
\* defaults of SmartConcurrencyManager.__init__(simple_limit, complex_limit)
simple_limit_default ==
    20
complex_limit_default ==
    5
\* asyncio.Semaphore(5) of the catch-all class, and limits.get(mode, 5)
unknown_limit ==
    5

\* the limits SpecAgent configures (ConfigValidator accepts only limits > 0)
SimpleLimits ==
    {2}
ComplexLimits ==
    {1, 4}

Modes ==
    {"SIMPLE", "COMPLEX", "UNKNOWN"}

\* user queries, one per way through EnhancedRouter.classify
Queries ==
    {"", "   ", "hi", "bug", "api error", "fix this bug?", "refund policy?",
     "track my parcel"}

\* query.strip()
strip(query) ==
    IF query = "   " THEN "" ELSE query

\* L1: some pattern of simple_patterns matches ("^.{0,4}$" for "hi", "bug")
simple_patterns(query) ==
    query \in {"hi", "bug"}

\* L1: some pattern of complex_patterns matches ("api", "bug")
complex_patterns(query) ==
    query \in {"bug", "api error", "fix this bug?"}

\* L3: len(query) > 50 or a question mark in the query
fallback_complex(query) ==
    query \in {"fix this bug?", "refund policy?"}

\* the keyword arguments DeepSeekClient.call_model takes; any other one
\* makes the call raise TypeError before the coroutine is created
call_model_accepts_any(kwarg) ==
    TRUE

call_model_accepts(kwarg) ==
    kwarg \in {"model", "messages", "temperature", "expected_format"}

\* the llm_client a router is built with: none (no model tier), the
\* agent's DeepSeekClient, or another object with a call_model coroutine
RouterClients ==
    {"none", "DeepSeekClient", "injected"}

\* what 'await self.llm_client.call_model(..., max_tokens=10)' can end in:
\* a text holding '[SIMPLE]', any other text, or an exception
model_answers(client) ==
    IF client = "DeepSeekClient" /\ ~call_model_accepts("max_tokens")
    THEN {"raise"}
    ELSE {"[SIMPLE]", "[COMPLEX]", "raise"}

\* the counters of EnhancedRouter.stats
StatKeys ==
    {"rule_hit_simple", "rule_hit_complex", "model_simple", "model_complex",
     "fallback_complex", "fallback_simple"}

\* what one classify call does: the class returned, the counter incremented
\* ("none" when no counter is), whether call_model was awaited and whether
\* the L3 test was evaluated
ClassifyOutcome(result, counter, model_called, fallback_consulted) ==
    [result |-> result, counter |-> counter, model_called |-> model_called,
     fallback_consulted |-> fallback_consulted]

\* L1: the two loops over the pattern lists, simple_patterns first
rule_tier_ComplexFirst(query) ==
    IF complex_patterns(query) THEN "rule_hit_complex"
    ELSE IF simple_patterns(query) THEN "rule_hit_simple"
    ELSE "none"

rule_tier(query) ==
    IF simple_patterns(query) THEN "rule_hit_simple"
    ELSE IF complex_patterns(query) THEN "rule_hit_complex"
    ELSE "none"

\* L3: the fallback test and its counters
fallback_tier(query, model_called) ==
    IF fallback_complex(query)
    THEN ClassifyOutcome("COMPLEX", "fallback_complex", model_called, TRUE)
    ELSE ClassifyOutcome("SIMPLE", "fallback_simple", model_called, TRUE)

\* 'except Exception': the failure is logged and control falls through to L3
except_Exception_Reraise(query) ==
    ClassifyOutcome("EXCEPTION", "none", TRUE, FALSE)

except_Exception(query) ==
    fallback_tier(query, TRUE)

\* EnhancedRouter.classify for a router built with the given client, when
\* the model tier (if reached) ends in the given answer
classify_step(query, client, answer) ==
    LET q == strip(query)
    IN  IF q = "" THEN ClassifyOutcome("SIMPLE", "none", FALSE, FALSE)
        ELSE IF rule_tier(q) = "rule_hit_simple"
             THEN ClassifyOutcome("SIMPLE", "rule_hit_simple", FALSE, FALSE)
        ELSE IF rule_tier(q) = "rule_hit_complex"
             THEN ClassifyOutcome("COMPLEX", "rule_hit_complex", FALSE, FALSE)
        ELSE IF client # "none"
             THEN IF answer = "raise" THEN except_Exception(q)
                  ELSE IF answer = "[SIMPLE]"
                       THEN ClassifyOutcome("SIMPLE", "model_simple", TRUE, FALSE)
                       ELSE ClassifyOutcome("COMPLEX", "model_complex", TRUE, FALSE)
        ELSE fallback_tier(q, FALSE)

\* EnhancedRouter.classify of the agent's own router (built with its
\* DeepSeekClient): the classes it can return for a query
classify(query) ==
    {classify_step(query, "DeepSeekClient", a).result :
        a \in model_answers("DeepSeekClient")}

\* most classify calls followed on one router
MaxClassify ==
    3

VARIABLES
    router_client,   \* router.llm_client (with a model_name when not none)
    router_stats,    \* router.stats
    classify_calls,  \* classify calls made on the router
    last_classify    \* the last call: its query, the model's answer, its outcome

routerVars ==
    <<router_client, router_stats, classify_calls, last_classify>>

NoClassify ==
    [query |-> "", answer |-> "unused", outcome |-> ClassifyOutcome("", "none", FALSE, FALSE)]

\* classify as a method of a router whose counters are stats: the body
\* writes self.stats and never reads it
classify_on_Counting(stats, query, client, answer) ==
    IF stats["fallback_simple"] > 0
    THEN [classify_step(query, client, answer) EXCEPT !.result = "COMPLEX"]
    ELSE classify_step(query, client, answer)

classify_on(stats, query, client, answer) ==
    classify_step(query, client, answer)

\* self.stats[counter] += 1
count(stats, counter) ==
    IF counter \in StatKeys THEN [stats EXCEPT ![counter] = @ + 1] ELSE stats

\* one call of router.classify(query)
RouterClassify(query, answer) ==
    /\ classify_calls < MaxClassify
    /\ LET o == classify_on(router_stats, query, router_client, answer)
       IN  /\ IF o.model_called THEN answer \in model_answers(router_client)
                                  ELSE answer = "unused"
           /\ router_stats' = count(router_stats, o.counter)
           /\ last_classify' = [query |-> query, answer |-> answer, outcome |-> o]
    /\ classify_calls' = classify_calls + 1
    /\ UNCHANGED router_client

\* EnhancedRouter.__init__ with the given client
RouterInit(client) ==
    /\ router_client = client
    /\ router_stats = [k \in StatKeys |-> 0]
    /\ classify_calls = 0
    /\ last_classify = NoClassify

\* a second router, built with the same pattern lists and no model tier
VARIABLES
    peer_stats,   \* its stats
    peer_calls,   \* classify calls made on it
    peer_last     \* its last call

peerVars ==
    <<peer_stats, peer_calls, peer_last>>

\* one call of classify(query) on the second router
PeerClassify(query) ==
    /\ peer_calls < MaxClassify
    /\ LET o == classify_on(peer_stats, query, "none", "unused")
       IN  /\ peer_stats' = count(peer_stats, o.counter)
           /\ peer_last' = [query |-> query, answer |-> "unused", outcome |-> o]
    /\ peer_calls' = peer_calls + 1

PeerInit ==
    /\ peer_stats = [k \in StatKeys |-> 0]
    /\ peer_calls = 0
    /\ peer_last = NoClassify

\* SmartConcurrencyManager.get_semaphore: the semaphore of a class
get_semaphore(mode) ==
    IF mode \in {"SIMPLE", "COMPLEX"} THEN mode ELSE "UNKNOWN"

\* the requests _handle_simple_chat and _handle_complex_query send
SimpleChatRequest ==
    [model |-> "deepseek/deepseek-v3.2", msg |-> "m1"]
ComplexQueryRequest ==
    [model |-> "deepseek/deepseek-v3.2-think", msg |-> "rag"]

\* what the awaited retrieval and prompt building of _handle_complex_query
\* end in: hits, nothing, or an exception leaving the handler
RetrievalOutcomes ==
    {"hits", "empty", "raise"}

\* the network outcomes SpecAgent explores
OutcomesAgent ==
    {"ok", "http_error"}

VARIABLES
    class_sem,   \* concurrency_mgr.semaphores[mode]._value
    limits,      \* concurrency_mgr.limits
    requests     \* the process_case calls (tasks)

agentVars ==
    <<class_sem, limits, requests>>

\* result = {'reply': '', 'mode': 'PENDING', 'error': None}, with what the
\* complex handler holds: the knowledge retrieved ("none" until retrieve
\* has returned), whether a generation call was issued, and how many
NewRequest ==
    [pc |-> "new", mode |-> "PENDING", reply |-> "", error |-> FALSE,
     knowledge |-> "none", generated |-> FALSE, gen_attempts |-> 0]

\* SmartConcurrencyManager.get_stats()[mode]['in_use']
in_use(mode) ==
    (IF mode \in DOMAIN limits THEN limits[mode] ELSE unknown_limit) - class_sem[mode]

\* asyncio.Semaphore.acquire inside 'async with sem' goes on only while
\* the semaphore has a free permit
SemaphoreFree_Always(value) ==
    TRUE

SemaphoreFree(value) ==
    value > 0

\* 'async with sem' leaves through __aexit__, which releases the permit
\* whether the body returned or raised
ReleasedOnExit_ReturnOnly(raised) ==
    ~raised

ReleasedOnExit(raised) ==
    TRUE

\* the semaphore values after the gated work of a request ends
Release(mode, raised) ==
    IF ReleasedOnExit(raised)
    THEN [class_sem EXCEPT ![get_semaphore(mode)] = @ + 1]
    ELSE class_sem

\* process_case, 'except Exception': result['reply'] = "系统错误" replaces
\* the reply the result was created with
except_reply_Keep(reply) ==
    reply

except_reply(reply) ==
    "system_error"

\* process_case up to 'async with sem': alert check and routing
ProcessStart(r, query) ==
    /\ requests[r].pc = "new"
    /\ \E mode \in classify(query) :
          requests' = [requests EXCEPT ![r].pc = "admission", ![r].mode = mode]
    /\ UNCHANGED <<class_sem, limits>>

\* 'async with sem': the permit of the request's class is taken
Admit(r) ==
    /\ requests[r].pc = "admission"
    /\ SemaphoreFree(class_sem[get_semaphore(requests[r].mode)])
    /\ class_sem' = [class_sem EXCEPT ![get_semaphore(requests[r].mode)] = @ - 1]
    /\ requests' = [requests EXCEPT ![r].pc = "handler"]
    /\ UNCHANGED limits

\* _handle_simple_chat: call_model(..., max_tokens=200); an exception of
\* the call gives the busy reply, and the permit is released
SimpleChat(r) ==
    /\ requests[r].pc = "handler"
    /\ requests[r].mode = "SIMPLE"
    /\ IF call_model_accepts("max_tokens")
       THEN /\ ClientStart(r, SimpleChatRequest)
            /\ requests' = [requests EXCEPT ![r].pc = "in_client"]
            /\ UNCHANGED class_sem
       ELSE /\ requests' = [requests EXCEPT ![r].pc = "returned", ![r].reply = "busy"]
            /\ class_sem' = Release(requests[r].mode, FALSE)
            /\ UNCHANGED clientVars
    /\ UNCHANGED limits

\* _handle_complex_query up to the generation call: retrieval, the
\* no-knowledge reply, the prompt, then call_model without max_tokens
ComplexRetrieve(r, outcome) ==
    /\ requests[r].pc = "handler"
    /\ requests[r].mode # "SIMPLE"
    /\ CASE outcome = "hits" ->
              /\ ClientStart(r, ComplexQueryRequest)
              /\ requests' = [requests EXCEPT ![r].pc = "in_client",
                                              ![r].knowledge = "hits",
                                              ![r].generated = TRUE,
                                              ![r].gen_attempts = 1]
              /\ UNCHANGED class_sem
         [] outcome = "empty" ->
              /\ requests' = [requests EXCEPT ![r].pc = "returned",
                                              ![r].knowledge = "empty",
                                              ![r].reply = "no_knowledge"]
              /\ class_sem' = Release(requests[r].mode, FALSE)
              /\ UNCHANGED clientVars
         [] outcome = "raise" ->
              /\ requests' = [requests EXCEPT ![r].pc = "returned",
                                              ![r].reply = except_reply(@),
                                              ![r].error = TRUE]
              /\ class_sem' = Release(requests[r].mode, TRUE)
              /\ UNCHANGED clientVars
    /\ UNCHANGED limits

\* call_model has returned: the handler returns its text, the permit is
\* released and process_case returns the result
HandlerFinish(r) ==
    /\ requests[r].pc = "in_client"
    /\ ClientReturn(r)
    /\ requests' = [requests EXCEPT ![r].pc = "returned", ![r].reply = calls[r].result]
    /\ class_sem' = Release(requests[r].mode, FALSE)
    /\ UNCHANGED limits

(***************************************************************************)
(* _handle_complex_query await by await: ComplexRetrieve above takes the   *)
(* handler up to the generation call as one step; the actions below stop   *)
(* at each await and follow the generation loop.                           *)
(***************************************************************************)
\* 'for _ in range(3)' around the generation call
generation_tries ==
    3

\* how AsyncKnowledgeRetriever.retrieve starts: without a RAG tool it
\* returns [] at once, a cached result is returned at once, otherwise
\* vector_rag.search runs in the thread pool
RetrieveStarts ==
    {"no_tool", "cached", "miss"}

\* the network outcomes SpecCase explores
OutcomesCase ==
    {"ok", "http_error", "ok_nontext"}

\* 'knowledge = await self.async_retriever.retrieve(user_query)': the
\* handler goes on only when retrieve has returned
await_retrieve_Early(pc) ==
    pc \in {"retrieving", "retrieved"}

await_retrieve(pc) ==
    pc = "retrieved"

\* _handle_complex_query enters retrieve
RetrieveStart(r, start) ==
    /\ requests[r].pc = "handler"
    /\ requests[r].mode # "SIMPLE"
    /\ requests' = [requests EXCEPT ![r] =
          CASE start = "no_tool" -> [@ EXCEPT !.pc = "retrieved", !.knowledge = "empty"]
            [] start = "cached" -> [@ EXCEPT !.pc = "retrieved", !.knowledge = "hits"]
            [] start = "miss" -> [@ EXCEPT !.pc = "retrieving"]]
    /\ UNCHANGED <<class_sem, limits>>

\* vector_rag.search ends in the thread pool: results, nothing, or an
\* exception, which retrieve turns into []
RetrieveDone(r, outcome) ==
    /\ requests[r].pc = "retrieving"
    /\ requests' = [requests EXCEPT ![r].pc = "retrieved",
                                    ![r].knowledge = IF outcome = "hits" THEN "hits"
                                                                         ELSE "empty"]
    /\ UNCHANGED <<class_sem, limits>>

\* the handler resumes after retrieve: the no-knowledge reply, or the prompt
\* (whose construction may raise) and the first generation call
Generate(r, prompt_ok) ==
    /\ requests[r].pc \in {"retrieving", "retrieved"}
    /\ await_retrieve(requests[r].pc)
    /\ IF requests[r].knowledge = "empty"
       THEN /\ requests' = [requests EXCEPT ![r].pc = "returned",
                                            ![r].reply = "no_knowledge"]
            /\ class_sem' = Release(requests[r].mode, FALSE)
            /\ UNCHANGED clientVars
       ELSE IF ~prompt_ok
       THEN /\ requests' = [requests EXCEPT ![r].pc = "returned",
                                            ![r].reply = except_reply(@),
                                            ![r].error = TRUE]
            /\ class_sem' = Release(requests[r].mode, TRUE)
            /\ UNCHANGED clientVars
       ELSE /\ ClientStart(r, ComplexQueryRequest)
            /\ requests' = [requests EXCEPT ![r].pc = "in_client",
                                            ![r].generated = TRUE,
                                            ![r].gen_attempts = 1]
            /\ UNCHANGED class_sem
    /\ UNCHANGED limits

\* the generation call has ended: its text is the reply, or it raised and
\* the handler sleeps before the next round of the loop
GenerateFinish(r) ==
    /\ requests[r].pc = "in_client"
    /\ ClientReturn(r)
    /\ IF calls[r].result = "raised"
       THEN /\ requests' = [requests EXCEPT ![r].pc = "gen_sleep"]
            /\ UNCHANGED class_sem
       ELSE /\ requests' = [requests EXCEPT ![r].pc = "returned",
                                            ![r].reply = calls[r].result]
            /\ class_sem' = Release(requests[r].mode, FALSE)
    /\ UNCHANGED limits

\* asyncio.sleep(0.5) is over: the next generation call, or after the
\* last round the unavailable reply
GenerateRetry(r) ==
    /\ requests[r].pc = "gen_sleep"
    /\ IF requests[r].gen_attempts < generation_tries
       THEN /\ ClientStart(r, ComplexQueryRequest)
            /\ requests' = [requests EXCEPT ![r].pc = "in_client",
                                            ![r].gen_attempts = @ + 1]
            /\ UNCHANGED class_sem
       ELSE /\ requests' = [requests EXCEPT ![r].pc = "returned",
                                            ![r].reply = "unavailable"]
            /\ class_sem' = Release(requests[r].mode, FALSE)
            /\ UNCHANGED clientVars
    /\ UNCHANGED limits

\* EnhancedCustomerServiceAgent.__init__: SmartConcurrencyManager(s, c)
AgentInit(s, c) ==
    /\ class_sem = [m \in Modes |-> IF m = "SIMPLE" THEN s
                                    ELSE IF m = "COMPLEX" THEN c ELSE unknown_limit]
    /\ limits = [m \in {"SIMPLE", "COMPLEX"} |-> IF m = "SIMPLE" THEN s ELSE c]
    /\ requests = [r \in RequestIds |-> NewRequest]

(***************************************************************************)
(*        DeepSeekClient._truncate_messages_to_token_limit                 *)
(* A message is represented by the length of its content in characters;    *)
(* tokens are counted the way _count_tokens does without tiktoken.         *)
(***************************************************************************)
\* longest message list explored
MaxMessages ==
    3
\* content lengths (characters) of the messages explored
ContentLengths ==
    {0, 8, 40}
\* the max_tokens arguments explored
TokenLimits ==
    {0, 2, 5, 12}

\* len("...[" + 5 characters + "]"), the marker appended to truncated content
marker_len ==
    10
\* 'len(text) // 4' and 'remaining_tokens * 4'
chars_per_token ==
    4

\* _count_tokens(text), fallback estimate
_count_tokens(content) ==
    content \div chars_per_token

\* content[:chars_to_keep] + marker
truncated_content(content, chars_to_keep) ==
    (IF content < chars_to_keep THEN content ELSE chars_to_keep) + marker_len

\* the loop of _truncate_messages_to_token_limit over reversed(messages):
\* i is the position of the message looked at, total the tokens kept so far
RECURSIVE TruncateLoop(_, _, _, _, _)
TruncateLoop(messages, i, total, kept, max_tokens) ==
    IF i = 0 THEN kept
    ELSE LET tokens == _count_tokens(messages[i])
             remaining_tokens == max_tokens - total
             cut == truncated_content(messages[i], remaining_tokens * chars_per_token)
         IN  IF total + tokens > max_tokens
             THEN IF remaining_tokens <= 0
                  THEN kept
                  ELSE TruncateLoop(messages, i - 1, total + _count_tokens(cut),
                                    <<cut>> \o kept, max_tokens)
             ELSE TruncateLoop(messages, i - 1, total + tokens,
                               <<messages[i]>> \o kept, max_tokens)

_truncate_messages_to_token_limit(messages, max_tokens) ==
    TruncateLoop(messages, Len(messages), 0, <<>>, max_tokens)

VARIABLES
    trunc_in,    \* the messages argument
    trunc_max,   \* the max_tokens argument
    trunc_out,   \* the list returned
    trunc_done   \* the call has returned

truncVars ==
    <<trunc_in, trunc_max, trunc_out, trunc_done>>

MessageLists ==
    UNION {[1..n -> ContentLengths] : n \in 0..MaxMessages}

\* one call of _truncate_messages_to_token_limit
Truncate ==
    /\ ~trunc_done
    /\ trunc_out' = _truncate_messages_to_token_limit(trunc_in, trunc_max)
    /\ trunc_done' = TRUE
    /\ UNCHANGED <<trunc_in, trunc_max>>

\* no call pending
TruncIdle ==
    /\ trunc_in = <<>>
    /\ trunc_max = 0
    /\ trunc_out = <<>>
    /\ trunc_done = TRUE

(***************************************************************************)
(*                       OptimizedVectorRAGTool                            *)
(* Similarities are in tenths (5 is 0.5, 10 is 1.0).  A knowledge base     *)
(* with documents holds one short document per chunk, so chunk c is the    *)
(* text of document c.                                                     *)
(***************************************************************************)
\* chunks of the knowledge base explored
NumChunks ==
    3
\* search calls followed on one tool
MaxSearches ==
    3
\* seconds followed on the tool's clock
MaxRagTime ==
    2
\* self.top_k explored (config 'top_k')
TopKConfigured ==
    2

Chunks ==
    1..NumChunks

\* config.get('similarity_threshold', 0.5)
similarity_threshold ==
    5
\* the 'rerank_threshold' values a configuration carries (the agent's
\* default is 0.1; ConfigValidator accepts 0..1)
RerankThresholds ==
    {1, 8}
\* config 'cache_ttl' (2 seconds in test_rag_cache)
rag_cache_ttl ==
    2
\* 'similarity': 1.0 of a text match
text_match_similarity ==
    10
\* top_k: Optional[int] = None
None_k ==
    -1
\* the top_k arguments explored
TopKArgs ==
    {None_k, 0, 1, 3}
\* the similarities a chunk can have to the query
Scores ==
    {3, 5, 7, 9}
\* the similarity table SpecRag explores: two chunks above the threshold,
\* the others at it
SimsRag ==
    [c \in Chunks |-> IF c = 1 THEN 9 ELSE IF c = 2 THEN 7 ELSE 5]

\* the knowledge base file: missing, holding no document, or one document
\* per chunk
KnowledgeBases ==
    {"absent", "empty", "docs"}
\* what is installed: no sentence-transformers (self.model stays None),
\* sentence-transformers alone, or with faiss
Backends ==
    {"none", "numpy", "faiss"}
\* config 'model_name'
ModelNames ==
    {"shibing624/text2vec-base-chinese", "my-model"}
RagQueries ==
    {"billing", "BILLING", "zzz"}

\* query.lower()
lower(query) ==
    IF query = "BILLING" THEN "billing" ELSE query

\* 'query_lower in value_str' over the documents, in file order: documents
\* 1 and 2 are "API billing rules" and "Billing refunds"
text_matches(query_lower) ==
    IF query_lower = "billing" THEN <<1, 2>> ELSE <<>>

\* '"not exist" in str(e) or "No such file" in str(e)' and
\* '"model" in str(e).lower()' for str(e) = "向量索引构建失败: <model_name>"
message_has(model_name, needle) ==
    needle = "model" /\ model_name = "my-model"

\* the exception _initialize raises when the knowledge file is missing:
\* _load_knowledge_base's KnowledgeBaseNotFoundError is caught and wrapped
\* in RAGException, that one in VectorIndexBuildError(model_name, ...),
\* whose message names only the model; _initialize picks by that message
initialize_error(model_name) ==
    IF message_has(model_name, "not exist") \/ message_has(model_name, "No such file")
    THEN "KnowledgeBaseNotFoundError"
    ELSE IF message_has(model_name, "model") THEN "VectorIndexBuildError"
    ELSE "RAGException"

\* 'top_k = top_k or self.top_k'
effective_top_k(top_k) ==
    IF top_k = None_k \/ top_k = 0 THEN TopKConfigured ELSE top_k

\* _get_query_cache_key(query, top_k): md5 of f"{query}_{top_k}"
_get_query_cache_key(query, top_k) ==
    <<query, top_k>>

\* seq[:k]
Prefix(seq, k) ==
    SubSeq(seq, 1, IF k < Len(seq) THEN k ELSE Len(seq))

\* the orders a descending sort of the similarities can produce (equal
\* similarities in either order)
Orders(sims) ==
    {o \in [Chunks -> Chunks] :
        /\ \A i, j \in Chunks : i # j => o[i] # o[j]
        /\ \A i \in 1..(NumChunks - 1) : sims[o[i]] >= sims[o[i + 1]]}

\* 'sim > self.similarity_threshold'
passes_threshold_AtOrAbove(sim) ==
    sim >= similarity_threshold

passes_threshold(sim) ==
    sim > similarity_threshold

VectorItem(c, sims) ==
    [text |-> c, similarity |-> sims[c], source |-> "vector_search"]

TextItem(d) ==
    [text |-> d, similarity |-> text_match_similarity, source |-> "text_match"]

\* the chunks of an order that pass the threshold, as result items
Passing(order, sims) ==
    LET Keep(c) == passes_threshold(sims[c])
        kept == SelectSeq(order, Keep)
    IN  [i \in 1..Len(kept) |-> VectorItem(kept[i], sims)]

\* _numpy_search: the top_k most similar chunks, then the threshold
_numpy_search(order, sims, top_k) ==
    Passing(Prefix(order, top_k), sims)

\* _faiss_search: the min(2 * top_k, n) nearest, the threshold, results[:top_k]
_faiss_search(order, sims, top_k) ==
    Prefix(Passing(Prefix(order, 2 * top_k), sims), top_k)

\* _fallback_search: nothing without the file, else the documents holding
\* the lowered query, results[:self.top_k]
_fallback_search(kb, query) ==
    IF kb = "absent" THEN <<>>
    ELSE IF kb = "empty" THEN <<>>
    ELSE LET hits == Prefix(text_matches(lower(query)), TopKConfigured)
         IN  [i \in 1..Len(hits) |-> TextItem(hits[i])]

VARIABLES
    rag_kb,            \* the knowledge base file
    rag_backend,       \* what is installed
    rag_model_name,    \* self.model_name
    rag_rerank,        \* config['rerank_threshold']
    rag_sims,          \* similarity of each chunk to the query
    rag_initialized,   \* self._initialized
    rag_query_cache,   \* self._query_cache
    rag_clock,         \* time.time()
    rag_stats,         \* self.stats
    rag_computed,      \* per cache key, the last search that was computed
    rag_last           \* the last search call and what it gave

ragVars ==
    <<rag_kb, rag_backend, rag_model_name, rag_rerank, rag_sims, rag_initialized,
      rag_query_cache, rag_clock, rag_stats, rag_computed, rag_last>>

CacheKeys ==
    {_get_query_cache_key(q, k) : q \in RagQueries, k \in 1..3}

NoQueryEntry ==
    [results |-> <<>>, cached_at |-> Never]

NoSearch ==
    [query |-> "", top_k |-> None_k, path |-> "none", results |-> <<>>,
     error |-> "none", at |-> Never, previous |-> NoQueryEntry]

\* _cleanup_cache: entries older than cache_ttl are deleted (the size limit
\* max_cache_size = 1000 is never reached by the keys explored)
_cleanup_cache(cache, current_time) ==
    [key \in CacheKeys |->
        IF cache[key].cached_at # Never
           /\ current_time - cache[key].cached_at > rag_cache_ttl
        THEN NoQueryEntry ELSE cache[key]]

\* self.model is set and knowledge_chunks is not empty
vector_ready ==
    rag_backend # "none" /\ rag_kb = "docs"

\* one call of search(query, top_k); encode_ok tells whether model.encode
\* returns (when it raises, _vector_search falls back to the text search)
RagSearch(query, top_k, encode_ok) ==
    /\ rag_stats.total_searches < MaxSearches
    /\ LET k == effective_top_k(top_k)
           key == _get_query_cache_key(query, k)
           entry == rag_query_cache[key]
           stats1 == [rag_stats EXCEPT !.total_searches = @ + 1]
           call == [NoSearch EXCEPT !.query = query, !.top_k = top_k,
                                    !.at = rag_clock,
                                    !.previous = rag_computed[key]]
       IN  IF ~rag_initialized /\ rag_kb = "absent"
           THEN \* _ensure_initialized raises out of search
                /\ rag_stats' = stats1
                /\ rag_last' = [call EXCEPT !.path = "init",
                                            !.error = initialize_error(rag_model_name)]
                /\ UNCHANGED <<rag_initialized, rag_query_cache, rag_computed>>
           ELSE IF entry.cached_at # Never /\ rag_clock - entry.cached_at < rag_cache_ttl
           THEN /\ rag_stats' = [stats1 EXCEPT !.cache_hits = @ + 1]
                /\ rag_last' = [call EXCEPT !.path = "cache", !.results = entry.results]
                /\ rag_initialized' = TRUE
                /\ UNCHANGED <<rag_query_cache, rag_computed>>
           ELSE \E order \in Orders(rag_sims) :
                LET path == IF ~vector_ready THEN "fallback"
                            ELSE IF ~encode_ok THEN "vector_failed" ELSE "vector"
                    results == IF path # "vector" THEN _fallback_search(rag_kb, query)
                               ELSE IF rag_backend = "faiss"
                                    THEN _faiss_search(order, rag_sims, k)
                                    ELSE _numpy_search(order, rag_sims, k)
                    computed == [results |-> results, cached_at |-> rag_clock]
                IN  /\ rag_stats' = IF path = "fallback"
                                    THEN [stats1 EXCEPT !.fallback_searches = @ + 1]
                                    ELSE [stats1 EXCEPT !.vector_searches = @ + 1]
                    /\ rag_query_cache' =
                          IF results # <<>>
                          THEN _cleanup_cache([rag_query_cache EXCEPT ![key] = computed],
                                              rag_clock)
                          ELSE rag_query_cache
                    /\ rag_computed' = [rag_computed EXCEPT ![key] = computed]
                    /\ rag_last' = [call EXCEPT !.path = path, !.results = results]
                    /\ rag_initialized' = TRUE
    /\ UNCHANGED <<rag_kb, rag_backend, rag_model_name, rag_rerank, rag_sims, rag_clock>>

\* a second passes
RagTick ==
    /\ rag_clock < MaxRagTime
    /\ rag_clock' = rag_clock + 1
    /\ UNCHANGED <<rag_kb, rag_backend, rag_model_name, rag_rerank, rag_sims,
                   rag_initialized, rag_query_cache, rag_stats, rag_computed, rag_last>>

\* OptimizedVectorRAGTool.__init__ (lazy_load): nothing is loaded yet
RagInit(kb, backend, model_name, rerank, sims) ==
    /\ rag_kb = kb
    /\ rag_backend = backend
    /\ rag_model_name = model_name
    /\ rag_rerank = rerank
    /\ rag_sims = sims
    /\ rag_initialized = FALSE
    /\ rag_query_cache = [key \in CacheKeys |-> NoQueryEntry]
    /\ rag_clock = 0
    /\ rag_stats = [total_searches |-> 0, cache_hits |-> 0, vector_searches |-> 0,
                    fallback_searches |-> 0]
    /\ rag_computed = [key \in CacheKeys |-> NoQueryEntry]
    /\ rag_last = NoSearch

\* the tool the agent builds by default
RagIdle ==
    RagInit("docs", "none", "shibing624/text2vec-base-chinese", 1,
            [c \in Chunks |-> 3])

(***************************************************************************)
(* The exception handler (exceptions.py).  An exception is its class and   *)
(* the text it was built with; a text is a sequence of words, and          *)
(* 'needle in str(e).lower()' holds when a word of the message, lowered,   *)
(* is the needle.                                                          *)
(***************************************************************************)
MaxWords == 2

ExceptionClasses ==
    {"ModelRateLimitError", "ModelTimeoutError", "ModelConnectionError",
     "ModelResponseError", "CacheConnectionError", "CacheOperationError",
     "KnowledgeBaseNotFoundError", "VectorIndexBuildError", "Exception"}

Words ==
    {"data", "Connection", "timeout", "kb.json"}

Texts ==
    UNION {[1..n -> Words] : n \in 1..MaxWords}

\* str.lower() of one word
lower_word(word) ==
    IF word = "Connection" THEN "connection" ELSE word

\* str(exception): the message the class builds from its argument.  Every
\* class of the package puts a fixed Chinese phrase before the argument;
\* ModelResponseError names the model and the status code only.
message(exception) ==
    IF exception.class = "Exception" THEN exception.text
    ELSE IF exception.class = "ModelResponseError" THEN <<"zh", "model">>
    ELSE <<"zh">> \o exception.text

\* 'needle in str(exception).lower()'
lower_contains(exception, needle) ==
    \E i \in 1..Len(message(exception)) : lower_word(message(exception)[i]) = needle

retryable_exceptions ==
    {"ModelRateLimitError", "ModelTimeoutError", "ModelConnectionError",
     "CacheConnectionError", "CacheOperationError"}

\* ExceptionHandler.should_retry
should_retry(exception) ==
    IF exception.class \in retryable_exceptions THEN TRUE
    ELSE IF lower_contains(exception, "connection") \/ lower_contains(exception, "timeout")
    THEN TRUE
    ELSE FALSE

\* ExceptionHandler.get_exception_severity
get_exception_severity(exception) ==
    IF exception.class \in {"ModelConnectionError", "CacheConnectionError"} THEN "CRITICAL"
    ELSE IF exception.class \in {"ModelRateLimitError", "ModelTimeoutError",
                                 "ModelResponseError"} THEN "HIGH"
    ELSE IF exception.class \in {"VectorIndexBuildError", "CacheOperationError"} THEN "MEDIUM"
    ELSE IF exception.class = "KnowledgeBaseNotFoundError" THEN "LOW"
    ELSE "MEDIUM"

VARIABLES
    raised,         \* the exception handed to the handler
    handled         \* what handle_exception returned for it

retryVars == <<raised, handled>>

NotHandled == [severity |-> "none", should_retry |-> FALSE]

\* ExceptionHandler.handle_exception
HandleException ==
    /\ handled = NotHandled
    /\ handled' = [severity |-> get_exception_severity(raised),
                   should_retry |-> should_retry(raised)]
    /\ UNCHANGED raised

RetryInit(class, text) ==
    /\ raised = [class |-> class, text |-> text]
    /\ handled = NotHandled

(***************************************************************************)
(* The knowledge engine under threads.  AsyncKnowledgeRetriever hands each *)
(* search to a ThreadPoolExecutor, so several threads run                  *)
(* OptimizedVectorRAGTool.search on one tool; the interpreter may switch   *)
(* threads between any two statements.  A worker is one pool thread; its   *)
(* pc is the statement of search, _initialize or _cleanup_cache it is at.  *)
(* The tool has documents and the numpy backend.  The knowledge file and   *)
(* the cached index file carry their modification times; an index is known *)
(* by the modification time of the knowledge file it was chunked from.     *)
(***************************************************************************)
NumWorkers == 2
MaxRestarts == 1

Workers == 1..NumWorkers

WorkerQueries == {"billing", "BILLING"}

NoIndex == [chunks |-> Never, embeddings |-> Never, cached_at |-> Never]

NoCacheFile == [mtime |-> Never, version |-> Never]

IdleWorker ==
    [pc |-> "idle", query |-> "", key |-> <<"", 0>>, results |-> <<>>,
     iter_used |-> 0, to_visit |-> {}, current_time |-> 0, keys_to_delete |-> {},
     built |-> Never, used |-> Never, stale |-> FALSE, overlap |-> FALSE,
     error |-> "none"]

\* the statements of _build_vector_index and _load_cached_index between the
\* first assignment to self.knowledge_chunks and the last to self.embeddings
WritingPcs == {"build_embeddings", "load_embeddings"}

VARIABLES
    workers,          \* per pool thread, where it is in search
    knowledge_mtime,  \* st_mtime of the knowledge file
    cache_file,       \* vector_index.pkl: its st_mtime and the chunks in it
    rag_index,        \* self.knowledge_chunks and self.embeddings
    init_runs,        \* calls of _initialize on this tool
    restarts          \* tools constructed after the first

workerVars == <<workers, knowledge_mtime, cache_file, rag_index, init_runs, restarts>>

\* the keys present in self._query_cache
present(cache) ==
    {key \in CacheKeys : cache[key].cached_at # Never}

ragConfig == <<rag_kb, rag_backend, rag_model_name, rag_rerank, rag_sims>>

\* search, lines 388-389: the call starts and is counted
WorkerCall(t, query) ==
    /\ workers[t].pc = "idle"
    /\ rag_stats.total_searches < MaxSearches
    /\ rag_stats' = [rag_stats EXCEPT !.total_searches = @ + 1]
    /\ workers' = [workers EXCEPT ![t] =
          [IdleWorker EXCEPT !.pc = "ensure", !.query = query,
                             !.key = _get_query_cache_key(query, effective_top_k(None_k))]]
    /\ UNCHANGED <<ragConfig, rag_initialized, rag_query_cache, rag_clock, rag_computed,
                   rag_last, knowledge_mtime, cache_file, rag_index, init_runs, restarts>>

\* _ensure_initialized: 'if not self._initialized: self._initialize()'
WorkerEnsure(t) ==
    /\ workers[t].pc = "ensure"
    /\ IF rag_initialized
       THEN /\ workers' = [workers EXCEPT ![t].pc = "check"]
            /\ UNCHANGED init_runs
       ELSE /\ workers' = [workers EXCEPT ![t].pc = "decide"]
            /\ init_runs' = init_runs + 1
    /\ UNCHANGED <<ragVars, knowledge_mtime, cache_file, rag_index, restarts>>

\* _should_rebuild_index, read by _initialize
_should_rebuild_index ==
    IF cache_file.mtime = Never THEN TRUE
    ELSE knowledge_mtime > cache_file.mtime

\* _initialize: the model is loaded, then the index is built or loaded
InitDecide(t) ==
    /\ workers[t].pc = "decide"
    /\ workers' = [workers EXCEPT ![t].pc =
          IF _should_rebuild_index THEN "build_chunks" ELSE "load_chunks"]
    /\ UNCHANGED <<ragVars, knowledge_mtime, cache_file, rag_index, init_runs, restarts>>

\* _build_vector_index: 'self.knowledge_chunks = self._chunk_documents(...)'
BuildChunks(t) ==
    /\ workers[t].pc = "build_chunks"
    /\ rag_index' = [rag_index EXCEPT !.chunks = knowledge_mtime]
    /\ workers' = [workers EXCEPT ![t].pc = "build_embeddings",
                                  ![t].built = knowledge_mtime]
    /\ UNCHANGED <<ragVars, knowledge_mtime, cache_file, init_runs, restarts>>

\* _build_vector_index: 'self.embeddings = self.model.encode(texts, ...)'
BuildEmbeddings(t) ==
    /\ workers[t].pc = "build_embeddings"
    /\ rag_index' = [rag_index EXCEPT !.embeddings = workers[t].built]
    /\ workers' = [workers EXCEPT ![t].pc = "cache_index"]
    /\ UNCHANGED <<ragVars, knowledge_mtime, cache_file, init_runs, restarts>>

\* _cache_index: self.knowledge_chunks is pickled to vector_index.pkl
CacheIndex(t) ==
    /\ workers[t].pc = "cache_index"
    /\ cache_file' = [mtime |-> rag_clock, version |-> rag_index.chunks]
    /\ rag_index' = [rag_index EXCEPT !.cached_at = rag_clock]
    /\ workers' = [workers EXCEPT ![t].pc = "mark"]
    /\ UNCHANGED <<ragVars, knowledge_mtime, init_runs, restarts>>

\* _load_cached_index: 'self.knowledge_chunks = cache_data[...]'
LoadChunks(t) ==
    /\ workers[t].pc = "load_chunks"
    /\ rag_index' = [rag_index EXCEPT !.chunks = cache_file.version,
                                      !.cached_at = cache_file.mtime]
    /\ workers' = [workers EXCEPT ![t].pc = "load_embeddings",
                                  ![t].built = cache_file.version]
    /\ UNCHANGED <<ragVars, knowledge_mtime, cache_file, init_runs, restarts>>

\* _load_cached_index: 'self.embeddings = cache_data[...]'
LoadEmbeddings(t) ==
    /\ workers[t].pc = "load_embeddings"
    /\ rag_index' = [rag_index EXCEPT !.embeddings = workers[t].built]
    /\ workers' = [workers EXCEPT ![t].pc = "mark"]
    /\ UNCHANGED <<ragVars, knowledge_mtime, cache_file, init_runs, restarts>>

\* _initialize: 'self._initialized = True'
InitMark(t) ==
    /\ workers[t].pc = "mark"
    /\ rag_initialized' = TRUE
    /\ workers' = [workers EXCEPT ![t].pc = "check"]
    /\ UNCHANGED <<ragConfig, rag_query_cache, rag_clock, rag_stats, rag_computed,
                   rag_last, knowledge_mtime, cache_file, rag_index, init_runs, restarts>>

\* search: 'if cache_key in self._query_cache'
WorkerCheck(t) ==
    /\ workers[t].pc = "check"
    /\ workers' = [workers EXCEPT ![t].pc =
          IF workers[t].key \in present(rag_query_cache) THEN "read" ELSE "compute"]
    /\ UNCHANGED <<ragVars, knowledge_mtime, cache_file, rag_index, init_runs, restarts>>

\* search: 'cache_entry = self._query_cache[cache_key]' and the freshness
\* test; the subscript is outside search's try block
WorkerRead(t) ==
    /\ workers[t].pc = "read"
    /\ LET entry == rag_query_cache[workers[t].key]
       IN  workers' = [workers EXCEPT ![t] =
              IF workers[t].key \notin present(rag_query_cache)
              THEN [@ EXCEPT !.pc = "raised", !.error = "KeyError"]
              ELSE IF rag_clock - entry.cached_at < rag_cache_ttl
              THEN [@ EXCEPT !.pc = "done", !.results = entry.results]
              ELSE [@ EXCEPT !.pc = "compute"]]
    /\ UNCHANGED <<ragVars, knowledge_mtime, cache_file, rag_index, init_runs, restarts>>

\* search: _vector_search reads self.knowledge_chunks and self.embeddings
WorkerCompute(t) ==
    /\ workers[t].pc = "compute"
    /\ \E order \in Orders(rag_sims) :
          workers' = [workers EXCEPT ![t] =
             [@ EXCEPT !.pc = "insert",
                       !.results = _numpy_search(order, rag_sims, workers[t].key[2]),
                       !.used = rag_index.chunks,
                       !.stale = knowledge_mtime > rag_index.cached_at,
                       !.overlap = \E u \in Workers \ {t} : workers[u].pc \in WritingPcs]]
    /\ UNCHANGED <<ragVars, knowledge_mtime, cache_file, rag_index, init_runs, restarts>>

\* search: 'if results: self._query_cache[cache_key] = {...}', then
\* _cleanup_cache takes the time and starts iterating over the dictionary
WorkerInsert(t) ==
    /\ workers[t].pc = "insert"
    /\ IF workers[t].results = <<>>
       THEN /\ workers' = [workers EXCEPT ![t].pc = "done"]
            /\ UNCHANGED rag_query_cache
       ELSE LET cache == [rag_query_cache EXCEPT ![workers[t].key] =
                             [results |-> workers[t].results, cached_at |-> rag_clock]]
            IN  /\ rag_query_cache' = cache
                /\ workers' = [workers EXCEPT ![t] =
                      [@ EXCEPT !.pc = "iterate",
                                !.current_time = rag_clock,
                                !.iter_used = Cardinality(present(cache)),
                                !.to_visit = present(cache),
                                !.keys_to_delete = {}]]
    /\ UNCHANGED <<ragConfig, rag_initialized, rag_clock, rag_stats, rag_computed, rag_last,
                   knowledge_mtime, cache_file, rag_index, init_runs, restarts>>

\* _cleanup_cache: one step of 'for key, entry in self._query_cache.items()';
\* the iterator raises RuntimeError when the dictionary has changed, and
\* search turns that into SemanticSearchError
WorkerIterate(t) ==
    /\ workers[t].pc = "iterate"
    /\ IF Cardinality(present(rag_query_cache)) # workers[t].iter_used
          \/ ~(workers[t].to_visit \subseteq present(rag_query_cache))
       THEN workers' = [workers EXCEPT ![t].pc = "raised",
                                       ![t].error = "SemanticSearchError"]
       ELSE IF workers[t].to_visit = {}
       THEN workers' = [workers EXCEPT ![t].pc = "delete"]
       ELSE \E key \in workers[t].to_visit :
               workers' = [workers EXCEPT
                  ![t].to_visit = @ \ {key},
                  ![t].keys_to_delete =
                     IF workers[t].current_time - rag_query_cache[key].cached_at
                           > rag_cache_ttl
                     THEN @ \cup {key} ELSE @]
    /\ UNCHANGED <<ragVars, knowledge_mtime, cache_file, rag_index, init_runs, restarts>>

\* _cleanup_cache: one step of 'for key in set(keys_to_delete): del ...';
\* del raises KeyError when another thread deleted the key first
WorkerDelete(t) ==
    /\ workers[t].pc = "delete"
    /\ IF workers[t].keys_to_delete = {}
       THEN /\ workers' = [workers EXCEPT ![t].pc = "done"]
            /\ UNCHANGED rag_query_cache
       ELSE \E key \in workers[t].keys_to_delete :
               IF key \in present(rag_query_cache)
               THEN /\ rag_query_cache' = [rag_query_cache EXCEPT ![key] = NoQueryEntry]
                    /\ workers' = [workers EXCEPT ![t].keys_to_delete = @ \ {key}]
               ELSE /\ workers' = [workers EXCEPT ![t].pc = "raised",
                                                  ![t].error = "SemanticSearchError"]
                    /\ UNCHANGED rag_query_cache
    /\ UNCHANGED <<ragConfig, rag_initialized, rag_clock, rag_stats, rag_computed, rag_last,
                   knowledge_mtime, cache_file, rag_index, init_runs, restarts>>

\* the pool thread hands the result (or the exception) to the retriever
WorkerReturn(t) ==
    /\ workers[t].pc \in {"done", "raised"}
    /\ workers' = [workers EXCEPT ![t] = IdleWorker]
    /\ UNCHANGED <<ragVars, knowledge_mtime, cache_file, rag_index, init_runs, restarts>>

\* the knowledge file is edited
KnowledgeFileChange ==
    /\ rag_clock > knowledge_mtime
    /\ knowledge_mtime' = rag_clock
    /\ UNCHANGED <<ragVars, workers, cache_file, rag_index, init_runs, restarts>>

\* the process is started again: a new tool over the same cache directory
ToolRestart ==
    /\ restarts < MaxRestarts
    /\ \A t \in Workers : workers[t].pc = "idle"
    /\ rag_initialized
    /\ restarts' = restarts + 1
    /\ rag_initialized' = FALSE
    /\ rag_query_cache' = [key \in CacheKeys |-> NoQueryEntry]
    /\ rag_index' = NoIndex
    /\ init_runs' = 0
    /\ workers' = [t \in Workers |-> IdleWorker]
    /\ UNCHANGED <<ragConfig, rag_clock, rag_stats, rag_computed, rag_last,
                   knowledge_mtime, cache_file>>

\* a second passes for the threads
WorkerTick ==
    RagTick /\ UNCHANGED workerVars

\* a tool with lazy_load, no cached index on disk
WorkersInit ==
    /\ workers = [t \in Workers |-> IdleWorker]
    /\ knowledge_mtime = 0
    /\ cache_file = NoCacheFile
    /\ rag_index = NoIndex
    /\ init_runs = 0
    /\ restarts = 0

(***************************************************************************)
(* Chunking (_chunk_documents).  A paragraph is known by the whitespace    *)
(* around it, its length once stripped, and one run of blanks inside it;   *)
(* a chunk by where it starts and the length of its text.                  *)
(***************************************************************************)
MaxParagraphs == 2

chunk_size == 200

chunk_overlap == 50

min_chunk_length == 20

ParagraphLengths == {0, 1, 19, 20, 400, 401, 460, 470}

\* the runs of blanks explored: none, or 24 blanks from position 445
BlankRuns == {<<0, 0>>, <<445, 24>>}

Paragraphs ==
    {para \in [pad : {0, 1}, length : ParagraphLengths,
                blank_from : {run[1] : run \in BlankRuns},
                blank_len : {run[2] : run \in BlankRuns}] :
        /\ <<para.blank_from, para.blank_len>> \in BlankRuns
        /\ para.blank_len = 0 \/ para.blank_from + para.blank_len < para.length}

Documents ==
    UNION {[1..k -> Paragraphs] : k \in 1..MaxParagraphs}

\* len(para.strip()): the whitespace around the paragraph is removed
stripped_paragraph(para) ==
    para.length

\* len(para[i:i + self.chunk_size])
window_length(para, i) ==
    (IF i + chunk_size < para.length THEN i + chunk_size ELSE para.length) - i

\* len(chunk_text.strip()) for chunk_text = para[i:i + self.chunk_size]
window_stripped(para, i) ==
    LET e == i + window_length(para, i)
        blank(pos) == /\ para.blank_len > 0
                      /\ para.blank_from <= pos
                      /\ pos < para.blank_from + para.blank_len
        lo == IF blank(i) THEN para.blank_from + para.blank_len ELSE i
        hi == IF blank(e - 1) THEN para.blank_from - 1 ELSE e - 1
    IN  IF hi < lo THEN 0 ELSE hi - lo + 1

\* 'len(chunk_text.strip()) < 20: continue'
too_short(para, i) ==
    window_stripped(para, i) < min_chunk_length

\* 'for i in range(0, len(para), self.chunk_size - self.chunk_overlap)'
RECURSIVE sliding_windows(_, _)
sliding_windows(para, i) ==
    IF i >= stripped_paragraph(para) THEN <<>>
    ELSE (IF too_short(para, i) THEN <<>>
          ELSE <<[start_pos |-> i, length |-> window_length(para, i)]>>)
         \o sliding_windows(para, i + (chunk_size - chunk_overlap))

\* the chunks of one paragraph
chunk_paragraph(para) ==
    IF stripped_paragraph(para) = 0 THEN <<>>
    ELSE IF stripped_paragraph(para) > chunk_size * 2 THEN sliding_windows(para, 0)
    ELSE <<[start_pos |-> 0, length |-> stripped_paragraph(para)]>>

\* _chunk_documents over the paragraphs of one document
RECURSIVE _chunk_documents(_)
_chunk_documents(paragraphs) ==
    IF paragraphs = <<>> THEN <<>>
    ELSE chunk_paragraph(Head(paragraphs)) \o _chunk_documents(Tail(paragraphs))

VARIABLES
    chunk_in,       \* the paragraphs of the document
    chunk_out,      \* the chunks returned
    chunk_done      \* the call has returned

chunkVars == <<chunk_in, chunk_out, chunk_done>>

ChunkDocuments ==
    /\ ~chunk_done
    /\ chunk_out' = _chunk_documents(chunk_in)
    /\ chunk_done' = TRUE
    /\ UNCHANGED chunk_in

ChunkIdle ==
    /\ chunk_in = <<>>
    /\ chunk_out = <<>>
    /\ chunk_done = TRUE

\* the components added to the agent's tools, at rest
(***************************************************************************)
(* AdvancedCacheManager under its two threads: a foreground caller of      *)
(* set / delete / clear and the daemon thread running _cleanup_worker.     *)
(* The state is the RLock, the *.cache files of cache_dir and              *)
(* stats['evictions'].                                                      *)
(***************************************************************************)
\* the *.cache files that can exist
MaxCacheFiles ==
    3

\* disk_max_size, in files of one size
DiskMaxFiles ==
    2

\* cap on the evictions counted before the cleanup thread stops waking
MaxDiskEvictions ==
    2

CacheFiles ==
    1..MaxCacheFiles

\* the foreground operations that change cache_dir
ForegroundOps ==
    {"set", "delete", "clear"}

VARIABLES
    lock,            \* self.lock: the thread that owns it, or "free"
    foreground,      \* the foreground call: pc, op, file
    cleanup_thread,  \* _cleanup_worker: pc, cache_files and total_size of _manage_disk_size
    cache_dir,       \* the *.cache files present
    disk_evictions,  \* stats['evictions'] as counted by _manage_disk_size
    mutation         \* history: the last change of cache_dir or stats, and whether its thread held the lock

lockVars ==
    <<lock, foreground, cleanup_thread, cache_dir, disk_evictions, mutation>>

IdleForeground ==
    [pc |-> "idle", op |-> "none", file |-> 0]

SleepingCleanup ==
    [pc |-> "sleep", cache_files |-> {}, total_size |-> 0]

\* whether thread holds self.lock
holds_lock(thread) ==
    lock = thread

\* 'with self.lock:' at the top of set, delete and clear
ForegroundAcquire(op, file) ==
    /\ foreground.pc = "idle"
    /\ lock = "free"
    /\ lock' = "foreground"
    /\ foreground' = [pc |-> "locked", op |-> op, file |-> file]
    /\ UNCHANGED <<cleanup_thread, cache_dir, disk_evictions, mutation>>

\* the body of the operation: _set_disk_cache writes the file, delete
\* unlinks it, clear() unlinks every file
ForegroundMutate ==
    /\ foreground.pc = "locked"
    /\ cache_dir' = CASE foreground.op = "set"    -> cache_dir \cup {foreground.file}
                      [] foreground.op = "delete" -> cache_dir \ {foreground.file}
                      [] OTHER                    -> {}
    /\ mutation' = [by |-> "foreground", op |-> foreground.op,
                    held |-> holds_lock("foreground")]
    /\ foreground' = [foreground EXCEPT !.pc = "done"]
    /\ UNCHANGED <<lock, cleanup_thread, disk_evictions>>

\* leaving the with block
ForegroundRelease ==
    /\ foreground.pc = "done"
    /\ lock' = "free"
    /\ foreground' = IdleForeground
    /\ UNCHANGED <<cleanup_thread, cache_dir, disk_evictions, mutation>>

\* _cleanup_worker: time.sleep(self.cleanup_interval) returns
CleanupWake ==
    /\ cleanup_thread.pc = "sleep"
    /\ disk_evictions < MaxDiskEvictions
    /\ cleanup_thread' = [cleanup_thread EXCEPT !.pc = "expired"]
    /\ UNCHANGED <<lock, foreground, cache_dir, disk_evictions, mutation>>

\* _cleanup_expired: 'with self.lock:', the files whose entry has expired
\* are unlinked, the lock is released
_cleanup_expired(expired) ==
    /\ cleanup_thread.pc = "expired"
    /\ lock = "free"
    /\ expired \subseteq cache_dir
    /\ cache_dir' = cache_dir \ expired
    /\ mutation' = IF expired = {} THEN mutation
                   ELSE [by |-> "cleanup", op |-> "_cleanup_expired", held |-> TRUE]
    /\ cleanup_thread' = [cleanup_thread EXCEPT !.pc = "manage"]
    /\ UNCHANGED <<lock, foreground, disk_evictions>>

\* _manage_disk_size, first half: the glob, the total and the comparison
\* with disk_max_size; no lock is taken
ManageDiskScan ==
    /\ cleanup_thread.pc = "manage"
    /\ cleanup_thread' =
          IF Cardinality(cache_dir) > DiskMaxFiles
          THEN [pc |-> "evict", cache_files |-> cache_dir,
                total_size |-> Cardinality(cache_dir)]
          ELSE SleepingCleanup
    /\ UNCHANGED <<lock, foreground, cache_dir, disk_evictions, mutation>>

\* one round of 'while total_size > self.disk_max_size * 0.8 and cache_files':
\* the file with the oldest access time (any of them) is popped, stat() raises
\* when the file is gone and the except branch ends the call, otherwise the
\* file is unlinked and stats['evictions'] is incremented
ManageDiskEvict ==
    /\ cleanup_thread.pc = "evict"
    /\ IF cleanup_thread.total_size * 10 > DiskMaxFiles * 8
          /\ cleanup_thread.cache_files # {}
       THEN \E file_to_delete \in cleanup_thread.cache_files :
               IF file_to_delete \in cache_dir
               THEN /\ cache_dir' = cache_dir \ {file_to_delete}
                    /\ disk_evictions' = disk_evictions + 1
                    /\ mutation' = [by |-> "cleanup", op |-> "_manage_disk_size",
                                    held |-> holds_lock("cleanup")]
                    /\ cleanup_thread' =
                          [cleanup_thread EXCEPT
                              !.cache_files = @ \ {file_to_delete},
                              !.total_size = @ - 1]
               ELSE /\ cleanup_thread' = SleepingCleanup
                    /\ UNCHANGED <<cache_dir, disk_evictions, mutation>>
       ELSE /\ cleanup_thread' = SleepingCleanup
            /\ UNCHANGED <<cache_dir, disk_evictions, mutation>>
    /\ UNCHANGED <<lock, foreground>>

LockInit(files) ==
    /\ lock = "free"
    /\ foreground = IdleForeground
    /\ cleanup_thread = SleepingCleanup
    /\ cache_dir = files
    /\ disk_evictions = 0
    /\ mutation = [by |-> "none", op |-> "none", held |-> TRUE]

LockIdle ==
    LockInit({})

extraVars == <<retryVars, workerVars, chunkVars, lockVars>>

RetryIdle ==
    RetryInit("Exception", <<"data">>)

ExtraIdle ==
    /\ RetryIdle
    /\ WorkersInit
    /\ ChunkIdle
    /\ LockIdle

vars ==
    <<cacheVars, clientVars, agentVars, timeVars, traceVars, truncVars, routerVars, peerVars, ragVars, extraVars>>

\* the variables a component's actions leave alone
nonCacheVars ==
    <<clientVars, agentVars, timeVars, traceVars, truncVars, routerVars, peerVars, ragVars, extraVars>>

nonClientVars ==
    <<cacheVars, agentVars, timeVars, traceVars, truncVars, routerVars, peerVars, ragVars, extraVars>>

nonAgentVars ==
    <<cacheVars, timeVars, traceVars, truncVars, routerVars, peerVars, ragVars, extraVars>>

\* everything but the client and its clock
restVars ==
    <<cacheVars, agentVars, traceVars, truncVars, routerVars, peerVars, ragVars, extraVars>>

\* everything but the client and the record of its attempts
nonTraceVars ==
    <<cacheVars, agentVars, timeVars, truncVars, routerVars, peerVars, ragVars, extraVars>>

\* the stateful components together
componentVars ==
    <<cacheVars, clientVars, agentVars, timeVars, traceVars>>

Init ==
    /\ CacheInit
    /\ ClientInit
    /\ TimeInit
    /\ TraceInit
    /\ AgentInit(simple_limit_default, complex_limit_default)
    /\ TruncIdle
    /\ RouterInit("DeepSeekClient")
    /\ PeerInit
    /\ RagIdle
    /\ ExtraIdle

\* the agent built with one of the configured pairs of limits
InitAgent ==
    /\ CacheInit
    /\ ClientInit
    /\ TimeInit
    /\ TraceInit
    /\ \E s \in SimpleLimits, c \in ComplexLimits : AgentInit(s, c)
    /\ TruncIdle
    /\ RouterInit("DeepSeekClient")
    /\ PeerInit
    /\ RagIdle
    /\ ExtraIdle

\* one call of _truncate_messages_to_token_limit on any explored input
InitTruncate ==
    /\ CacheInit
    /\ ClientInit
    /\ TimeInit
    /\ TraceInit
    /\ AgentInit(simple_limit_default, complex_limit_default)
    /\ RouterInit("DeepSeekClient")
    /\ PeerInit
    /\ RagIdle
    /\ ExtraIdle
    /\ trunc_in \in MessageLists
    /\ trunc_max \in TokenLimits
    /\ trunc_out = <<>>
    /\ trunc_done = FALSE

\* a router built with any of the clients
InitRouter ==
    /\ CacheInit
    /\ ClientInit
    /\ TimeInit
    /\ TraceInit
    /\ AgentInit(simple_limit_default, complex_limit_default)
    /\ TruncIdle
    /\ \E client \in RouterClients : RouterInit(client)
    /\ PeerInit
    /\ RagIdle
    /\ ExtraIdle

(***************************************************************************)
(* SpecTruncate: one truncation call.  SpecRouter: classify calls on one   *)
(* router.                                                                 *)
(***************************************************************************)
DoTruncate ==
    Truncate /\ UNCHANGED <<componentVars, routerVars, peerVars, ragVars, extraVars>>

SpecTruncate ==
    InitTruncate /\ [][DoTruncate]_vars

DoClassify ==
    \E q \in Queries, a \in {"[SIMPLE]", "[COMPLEX]", "raise", "unused"} :
        RouterClassify(q, a) /\ UNCHANGED <<componentVars, truncVars, peerVars, ragVars, extraVars>>

SpecRouter ==
    InitRouter /\ [][DoClassify]_vars

(***************************************************************************)
(* SpecRouterPair: two routers without a model tier, each serving its own  *)
(* sequence of classify calls.                                             *)
(***************************************************************************)
InitRouterPair ==
    /\ CacheInit
    /\ ClientInit
    /\ TimeInit
    /\ TraceInit
    /\ AgentInit(simple_limit_default, complex_limit_default)
    /\ TruncIdle
    /\ RouterInit("none")
    /\ PeerInit
    /\ RagIdle
    /\ ExtraIdle

PairClassify ==
    \E q \in Queries :
        RouterClassify(q, "unused") /\ UNCHANGED <<componentVars, truncVars, peerVars, ragVars, extraVars>>

PairPeerClassify ==
    \E q \in Queries :
        PeerClassify(q) /\ UNCHANGED <<componentVars, truncVars, routerVars, ragVars, extraVars>>

NextRouterPair ==
    \/ PairClassify
    \/ PairPeerClassify

SpecRouterPair ==
    InitRouterPair /\ [][NextRouterPair]_vars

(***************************************************************************)
(* SpecRag: search calls on one tool, over every knowledge base, backend   *)
(* and model name, while time passes.  SpecVector: search calls on a tool  *)
(* with documents and an embedding backend, over every similarity table    *)
(* and rerank_threshold.                                                   *)
(***************************************************************************)
InitOthers ==
    /\ CacheInit
    /\ ClientInit
    /\ TimeInit
    /\ TraceInit
    /\ AgentInit(simple_limit_default, complex_limit_default)
    /\ TruncIdle
    /\ RouterInit("DeepSeekClient")
    /\ PeerInit
    /\ ExtraIdle

InitRag ==
    /\ InitOthers
    /\ \E kb \in KnowledgeBases, backend \in Backends, model_name \in ModelNames :
          \* the model name only shows in the error of a failed initialization
          /\ kb # "absent" => model_name = "shibing624/text2vec-base-chinese"
          /\ RagInit(kb, backend, model_name, 1, SimsRag)

otherVars ==
    <<componentVars, truncVars, routerVars, peerVars, extraVars>>

DoSearch ==
    \E q \in RagQueries, k \in TopKArgs, encode_ok \in BOOLEAN :
        RagSearch(q, k, encode_ok) /\ UNCHANGED otherVars

DoRagTick ==
    RagTick /\ UNCHANGED otherVars

NextRag ==
    \/ DoSearch
    \/ DoRagTick

SpecRag ==
    InitRag /\ [][NextRag]_vars

InitVector ==
    /\ InitOthers
    /\ \E backend \in {"numpy", "faiss"}, rerank \in RerankThresholds,
          sims \in [Chunks -> Scores] :
          RagInit("docs", backend, "shibing624/text2vec-base-chinese", rerank, sims)

VectorSearch ==
    \E k \in TopKArgs :
        RagSearch("billing", k, TRUE) /\ UNCHANGED otherVars

SpecVector ==
    InitVector /\ [][VectorSearch]_vars

(***************************************************************************)
(* SpecAgent: NumRequests concurrent process_case calls on one agent with  *)
(* the DeepSeekClient it builds itself.                                    *)
(***************************************************************************)
CaseStart ==
    \E r \in RequestIds, q \in Queries :
        ProcessStart(r, q) /\ UNCHANGED <<nonAgentVars, clientVars>>

CaseAdmit ==
    \E r \in RequestIds : Admit(r) /\ UNCHANGED <<nonAgentVars, clientVars>>

CaseSimpleChat ==
    \E r \in RequestIds : SimpleChat(r) /\ UNCHANGED nonAgentVars

CaseComplexRetrieve ==
    \E r \in RequestIds, o \in RetrievalOutcomes :
        ComplexRetrieve(r, o) /\ UNCHANGED nonAgentVars

CaseClientAcquire ==
    \E r \in RequestIds : ClientAcquire(r) /\ UNCHANGED nonClientVars

CaseClientRateLimitDone ==
    \E r \in RequestIds : ClientRateLimitDone(r) /\ UNCHANGED nonClientVars

CaseClientReply ==
    \E r \in RequestIds, o \in OutcomesAgent :
        ClientReply(r, o) /\ UNCHANGED nonClientVars

CaseClientFailover ==
    \E r \in RequestIds : ClientFailover(r) /\ UNCHANGED nonClientVars

CaseHandlerFinish ==
    \E r \in RequestIds : HandlerFinish(r) /\ UNCHANGED nonAgentVars

NextAgent ==
    \/ CaseStart
    \/ CaseAdmit
    \/ CaseSimpleChat
    \/ CaseComplexRetrieve
    \/ CaseClientAcquire
    \/ CaseClientRateLimitDone
    \/ CaseClientReply
    \/ CaseClientFailover
    \/ CaseHandlerFinish

SpecAgent ==
    InitAgent /\ [][NextAgent]_vars

(***************************************************************************)
(* SpecCase: concurrent process_case calls followed await by await, with   *)
(* every retrieval outcome and with model bodies that make call_model      *)
(* raise.                                                                  *)
(***************************************************************************)
\* the tasks of SpecCase
CaseTasks ==
    {1, 2}

StepStart ==
    \E r \in CaseTasks, q \in Queries :
        ProcessStart(r, q) /\ UNCHANGED <<nonAgentVars, clientVars>>

StepAdmit ==
    \E r \in CaseTasks : Admit(r) /\ UNCHANGED <<nonAgentVars, clientVars>>

StepSimpleChat ==
    \E r \in CaseTasks : SimpleChat(r) /\ UNCHANGED nonAgentVars

StepRetrieveStart ==
    \E r \in CaseTasks, start \in RetrieveStarts :
        RetrieveStart(r, start) /\ UNCHANGED <<nonAgentVars, clientVars>>

StepRetrieveDone ==
    \E r \in CaseTasks, o \in RetrievalOutcomes :
        RetrieveDone(r, o) /\ UNCHANGED <<nonAgentVars, clientVars>>

StepGenerate ==
    \E r \in CaseTasks, prompt_ok \in BOOLEAN :
        Generate(r, prompt_ok) /\ UNCHANGED nonAgentVars

StepClientAcquire ==
    \E r \in CaseTasks : ClientAcquire(r) /\ UNCHANGED nonClientVars

StepClientRateLimitDone ==
    \E r \in CaseTasks : ClientRateLimitDone(r) /\ UNCHANGED nonClientVars

StepClientReply ==
    \E r \in CaseTasks, o \in OutcomesCase :
        ClientReply(r, o) /\ UNCHANGED nonClientVars

StepClientFailover ==
    \E r \in CaseTasks : ClientFailover(r) /\ UNCHANGED nonClientVars

StepGenerateFinish ==
    \E r \in CaseTasks : GenerateFinish(r) /\ UNCHANGED nonAgentVars

StepGenerateRetry ==
    \E r \in CaseTasks : GenerateRetry(r) /\ UNCHANGED nonAgentVars

NextCase ==
    \/ StepStart
    \/ StepAdmit
    \/ StepSimpleChat
    \/ StepRetrieveStart
    \/ StepRetrieveDone
    \/ StepGenerate
    \/ StepClientAcquire
    \/ StepClientRateLimitDone
    \/ StepClientReply
    \/ StepClientFailover
    \/ StepGenerateFinish
    \/ StepGenerateRetry

SpecCase ==
    Init /\ [][NextCase]_vars

(***************************************************************************)
(* SpecClient: call_model invocations arriving on NumCalls tasks.          *)
(***************************************************************************)
\* the request the invocations of SpecClient carry
RequestsClient ==
    {[model |-> "deepseek/deepseek-v3.2", msg |-> "m1"]}

CallStart ==
    \E c \in ClientTasks, r \in RequestsClient : ClientStart(c, r) /\ UNCHANGED nonClientVars

CallAcquire ==
    \E c \in ClientTasks : ClientAcquire(c) /\ UNCHANGED nonClientVars

CallRateLimitDone ==
    \E c \in ClientTasks : ClientRateLimitDone(c) /\ UNCHANGED nonClientVars

CallReply ==
    \E c \in ClientTasks, o \in Outcomes : ClientReply(c, o) /\ UNCHANGED nonClientVars

CallBackoffDone ==
    \E c \in ClientTasks : ClientBackoffDone(c) /\ UNCHANGED nonClientVars

CallFailover ==
    \E c \in ClientTasks : ClientFailover(c) /\ UNCHANGED nonClientVars

CallReturn ==
    \E c \in ClientTasks : ClientReturn(c) /\ UNCHANGED nonClientVars

CacheEntryExpires ==
    \E r \in Requests : ClientCacheExpire(r) /\ UNCHANGED nonClientVars

EndpointUp ==
    EndpointRecovers /\ UNCHANGED nonClientVars

NextClient ==
    \/ CallStart
    \/ CallAcquire
    \/ CallRateLimitDone
    \/ CallReply
    \/ CallBackoffDone
    \/ CallFailover
    \/ CallReturn
    \/ CacheEntryExpires

SpecClient ==
    Init /\ [][NextClient]_vars

(***************************************************************************)
(* SpecClientBody: SpecClient with every body an attempt can come back     *)
(* with.  Each network attempt returns or fails and asyncio runs every     *)
(* ready task: weak fairness on every step of every task in call_model.    *)
(***************************************************************************)
BodyReply ==
    \E c \in ClientTasks, o \in OutcomesBody :
        ClientReply(c, o) /\ UNCHANGED nonClientVars

NextClientBody ==
    \/ CallStart
    \/ CallAcquire
    \/ CallRateLimitDone
    \/ BodyReply
    \/ CallBackoffDone
    \/ CallFailover
    \/ CallReturn
    \/ CacheEntryExpires

\* the steps task c takes inside call_model
InCallModel(c) ==
    \/ ClientAcquire(c)
    \/ ClientRateLimitDone(c)
    \/ \E o \in OutcomesBody : ClientReply(c, o)
    \/ ClientBackoffDone(c)
    \/ ClientFailover(c)

SpecClientBody ==
    /\ Init
    /\ [][NextClientBody]_vars
    /\ \A c \in ClientTasks : WF_vars(InCallModel(c) /\ UNCHANGED nonClientVars)

(***************************************************************************)
(* SpecClientFair: SpecClient with an endpoint that may recover for good   *)
(* (EndpointUp).  asyncio runs every ready task and invocations keep       *)
(* arriving: weak fairness on every client step.                           *)
(***************************************************************************)
NextClientFair ==
    \/ NextClient
    \/ EndpointUp

SpecClientFair ==
    /\ Init
    /\ [][NextClientFair]_vars
    /\ WF_vars(CallStart)
    /\ WF_vars(CallAcquire)
    /\ WF_vars(CallRateLimitDone)
    /\ WF_vars(CallReply)
    /\ WF_vars(CallBackoffDone)
    /\ WF_vars(CallFailover)
    /\ WF_vars(CallReturn)


(***************************************************************************)
(* SpecClientTimed: SpecClient with the clock.  A coroutine runs without   *)
(* interruption between two awaits that suspend it: a task that found no   *)
(* rate-limit wait necessary goes on to its first request before any       *)
(* other task runs or time passes (Running).  A sleeping task wakes at or  *)
(* after the end of its sleep.                                             *)
(***************************************************************************)
\* the network outcomes SpecClientTimed explores
OutcomesTimed ==
    {"ok", "invalid", "http_error", "503"}

\* the model identifier of the attempt a task is at
Target(call) ==
    model_variants(call.req.model)[call.variant]

\* the task is between the rate-limit check and its first request without
\* having been suspended
Running(c) ==
    calls[c].pc = "rate_limit" /\ wake[c] = Never

NoOtherRunning(c) ==
    \A d \in CallIds \ {c} : ~Running(d)

SleepOver(c) ==
    wake[c] = Never \/ clock >= wake[c]

\* elapsed < _min_interval in _wait_for_rate_limit(model)
MustWait(model) ==
    /\ last_request_time[model] # Never
    /\ clock - last_request_time[model] < _min_interval

TimedStart ==
    \E c \in ClientTasks, r \in RequestsClient :
        /\ NoOtherRunning(c)
        /\ ClientStart(c, r)
        /\ UNCHANGED <<nonClientVars>>

\* the semaphore is taken and _wait_for_rate_limit(model) computes its wait
TimedAcquire ==
    \E c \in ClientTasks :
        /\ NoOtherRunning(c)
        /\ ClientAcquire(c)
        /\ wake' = [wake EXCEPT ![c] =
                      IF MustWait(calls[c].req.model)
                      THEN clock + (_min_interval
                                      - (clock - last_request_time[calls[c].req.model]))
                      ELSE Never]
        /\ UNCHANGED <<clock, last_request_time, last_sent, restVars>>

\* _wait_for_rate_limit stamps the model and the first request is sent
TimedRateLimitDone ==
    \E c \in ClientTasks :
        /\ NoOtherRunning(c)
        /\ SleepOver(c)
        /\ ClientRateLimitDone(c)
        /\ last_request_time' = [last_request_time EXCEPT ![calls[c].req.model] = clock]
        /\ last_sent' = [last_sent EXCEPT ![Target(calls'[c])] = clock]
        /\ wake' = [wake EXCEPT ![c] = Never]
        /\ UNCHANGED <<clock, restVars>>

\* an attempt ends: success, an immediate new attempt (invalid body), a
\* backoff sleep, or the sleep before the next variant
TimedReply ==
    \E c \in ClientTasks, o \in OutcomesTimed :
        /\ NoOtherRunning(c)
        /\ ClientReply(c, o)
        /\ wake' = [wake EXCEPT ![c] =
                      IF calls'[c].pc = "backoff"
                      THEN clock + backoff_wait(o, calls[c].attempt)
                      ELSE IF calls'[c].pc = "failover_sleep"
                      THEN clock + failover_sleep
                      ELSE Never]
        /\ last_sent' = IF calls'[c].pc = "request"
                        THEN [last_sent EXCEPT ![Target(calls'[c])] = clock]
                        ELSE last_sent
        /\ UNCHANGED <<clock, last_request_time, restVars>>

\* the backoff sleep is over: the next attempt is sent, or the variant has
\* failed and the task sleeps before the next one
TimedBackoffDone ==
    \E c \in ClientTasks :
        /\ NoOtherRunning(c)
        /\ SleepOver(c)
        /\ ClientBackoffDone(c)
        /\ wake' = [wake EXCEPT ![c] =
                      IF calls'[c].pc = "failover_sleep"
                      THEN clock + failover_sleep ELSE Never]
        /\ last_sent' = IF calls'[c].pc = "request"
                        THEN [last_sent EXCEPT ![Target(calls'[c])] = clock]
                        ELSE last_sent
        /\ UNCHANGED <<clock, last_request_time, restVars>>

\* the sleep after a failed variant is over: the next variant is sent, or
\* the offline reply is returned
TimedFailover ==
    \E c \in ClientTasks :
        /\ NoOtherRunning(c)
        /\ SleepOver(c)
        /\ ClientFailover(c)
        /\ wake' = [wake EXCEPT ![c] = Never]
        /\ last_sent' = IF calls'[c].pc = "request"
                        THEN [last_sent EXCEPT ![Target(calls'[c])] = clock]
                        ELSE last_sent
        /\ UNCHANGED <<clock, last_request_time, restVars>>

TimedReturn ==
    \E c \in ClientTasks :
        /\ NoOtherRunning(c)
        /\ ClientReturn(c)
        /\ UNCHANGED <<nonClientVars>>

\* half a second passes while no task is running
TimePasses ==
    /\ clock < MaxTime
    /\ \A c \in CallIds : ~Running(c)
    /\ clock' = clock + 1
    /\ UNCHANGED <<last_request_time, wake, last_sent, clientVars, restVars>>

NextClientTimed ==
    \/ TimedStart
    \/ TimedAcquire
    \/ TimedRateLimitDone
    \/ TimedReply
    \/ TimedBackoffDone
    \/ TimedFailover
    \/ TimedReturn
    \/ TimePasses

SpecClientTimed ==
    Init /\ [][NextClientTimed]_vars

(***************************************************************************)
(* SpecClientTrace: call_model invocations with the record of the models   *)
(* each invocation has attempted so far.                                   *)
(***************************************************************************)
\* the requests of SpecClientTrace: a primary model that is also in the
\* whitelist, and one that is not
RequestsTrace ==
    {[model |-> "deepseek/deepseek-v3.2", msg |-> "m1"],
     [model |-> "nonexistent-model", msg |-> "m1"]}

\* the task whose invocations SpecClientTrace follows, one after another
TraceTasks ==
    {1}

\* the record after a network attempt of task c has been sent to model m
Sent(c, m) ==
    [tries EXCEPT ![c][m] = @ + 1]

TraceStart ==
    \E c \in TraceTasks, r \in RequestsTrace :
        /\ ClientStart(c, r)
        /\ UNCHANGED nonClientVars

TraceAcquire ==
    \E c \in TraceTasks : ClientAcquire(c) /\ UNCHANGED nonClientVars

TraceRateLimitDone ==
    \E c \in TraceTasks :
        /\ ClientRateLimitDone(c)
        /\ tries' = Sent(c, Target(calls'[c]))
        /\ UNCHANGED <<failed_variants, nonretryable, nonTraceVars>>

TraceReply ==
    \E c \in TraceTasks, o \in Outcomes :
        /\ ClientReply(c, o)
        /\ tries' = IF calls'[c].pc = "request"
                    THEN Sent(c, Target(calls'[c])) ELSE tries
        /\ failed_variants' = IF calls'[c].pc = "failover_sleep"
                              THEN [failed_variants EXCEPT ![c] = @ \cup {calls[c].variant}]
                              ELSE failed_variants
        /\ nonretryable' = IF o = "http_error"
                           THEN [nonretryable EXCEPT ![c] = @ \cup {Target(calls[c])}]
                           ELSE nonretryable
        /\ UNCHANGED nonTraceVars

TraceBackoffDone ==
    \E c \in TraceTasks :
        /\ ClientBackoffDone(c)
        /\ tries' = IF calls'[c].pc = "request"
                    THEN Sent(c, Target(calls'[c])) ELSE tries
        /\ failed_variants' = IF calls'[c].pc = "failover_sleep"
                              THEN [failed_variants EXCEPT ![c] = @ \cup {calls[c].variant}]
                              ELSE failed_variants
        /\ UNCHANGED <<nonretryable, nonTraceVars>>

TraceFailover ==
    \E c \in TraceTasks :
        /\ ClientFailover(c)
        /\ tries' = IF calls'[c].pc = "request"
                    THEN Sent(c, Target(calls'[c])) ELSE tries
        /\ UNCHANGED <<failed_variants, nonretryable, nonTraceVars>>

\* the invocation is over and its record is dropped
TraceReturn ==
    \E c \in TraceTasks :
        /\ ClientReturn(c)
        /\ failed_variants' = [failed_variants EXCEPT ![c] = {}]
        /\ tries' = [tries EXCEPT ![c] = NoTries]
        /\ nonretryable' = [nonretryable EXCEPT ![c] = {}]
        /\ UNCHANGED nonTraceVars

NextClientTrace ==
    \/ TraceStart
    \/ TraceAcquire
    \/ TraceRateLimitDone
    \/ TraceReply
    \/ TraceBackoffDone
    \/ TraceFailover
    \/ TraceReturn

SpecClientTrace ==
    Init /\ [][NextClientTrace]_vars

(***************************************************************************)
(* SpecCache: every cache operation, on two keys, with the history of the  *)
(* latest set of each key (last_set) and of the last operation (hist).     *)
(* The byte budget is not reached here (MaxTracked); evictions are         *)
(* explored by SpecCacheSets and SpecCacheLRU.                             *)
(***************************************************************************)
KeysRW ==
    {"user:1", "user:2"}
ValuesRW ==
    {"a", "big"}

NoHist(op) ==
    [op |-> op, key |-> "", ret |-> Absent, ret_expires |-> NoExpiry]

DoSet ==
    \E k \in KeysRW, v \in ValuesRW, t \in TTLs, p \in Priorities :
        /\ CacheSet(k, v, t, p)
        /\ stats_size_mem' <= MaxTracked
        /\ hist' = [op |-> "set", key |-> k, ret |-> Absent, ret_expires |-> NoExpiry]
        /\ last_set' = [last_set EXCEPT ![k] =
                          [value |-> v,
                           expires_at |-> IF t = 0 THEN now + default_ttl ELSE NoExpiry,
                           size_bytes |-> _estimate_size(v)]]
        /\ UNCHANGED <<touch_order, nonCacheVars>>

DoGet ==
    \E k \in KeysRW :
        /\ CacheGet(k)
        /\ stats_size_mem' <= MaxTracked
        /\ hist' = [op |-> IF hist.op = "set" /\ hist.key = k THEN "set_get" ELSE "get",
                    key |-> k, ret |-> GetParts(k).ret,
                    ret_expires |-> GetParts(k).ret_expires]
        /\ UNCHANGED <<last_set, touch_order, nonCacheVars>>

DoDelete ==
    \E k \in KeysRW :
        /\ CacheDelete(k)
        /\ hist' = NoHist("delete")
        /\ last_set' = [last_set EXCEPT ![k] = NoEntry]
        /\ UNCHANGED <<touch_order, nonCacheVars>>

DoClearAll ==
    /\ CacheClearAll
    /\ hist' = NoHist("clear")
    /\ last_set' = [k \in Keys |-> NoEntry]
    /\ UNCHANGED <<touch_order, nonCacheVars>>

DoClearPattern ==
    \E pattern \in Patterns :
        /\ CacheClearPattern(pattern)
        /\ hist' = [op |-> "clear_pattern", key |-> pattern, ret |-> Absent,
                    ret_expires |-> NoExpiry,
                    before |-> [k \in KeysRW |-> GetParts(k).ret]]
        /\ UNCHANGED <<last_set, touch_order, nonCacheVars>>

DoCleanupExpired ==
    /\ CleanupExpired
    /\ hist' = NoHist("sweep")
    /\ UNCHANGED <<last_set, touch_order, nonCacheVars>>

DoTick ==
    /\ ClockTick
    /\ hist' = NoHist("tick")
    /\ UNCHANGED <<last_set, touch_order, nonCacheVars>>

NextCache ==
    \/ DoSet
    \/ DoGet
    \/ DoDelete
    \/ DoClearAll
    \/ DoCleanupExpired
    \/ DoTick

SpecCache ==
    Init /\ [][NextCache]_vars

(***************************************************************************)
(* SpecCacheSets: set calls only (no get, delete, sweep or clock).         *)
(***************************************************************************)
ValuesSets ==
    {"a", "bb", "big"}
PrioritiesSets ==
    {"normal", "persistent"}

OnlySet ==
    \E k \in KeysRW, v \in ValuesSets, p \in PrioritiesSets :
        /\ CacheSet(k, v, -1, p)
        /\ UNCHANGED <<hist, last_set, touch_order, nonCacheVars>>

NextCacheSets ==
    OnlySet

SpecCacheSets ==
    Init /\ [][NextCacheSets]_vars

(***************************************************************************)
(* SpecCacheLRU: set and get on three keys of memory-tier entries, with    *)
(* the order of last touch (touch_order) as history.                       *)
(***************************************************************************)
ValuesLRU ==
    {"a", "bb"}

LruSet ==
    \E k \in Keys, v \in ValuesLRU :
        /\ CacheSet(k, v, -1, "normal")
        /\ touch_order' = Touch(touch_order, _normalize_key(k))
        /\ UNCHANGED <<hist, last_set, nonCacheVars>>

LruGet ==
    \E k \in Keys :
        /\ CacheGet(k)
        /\ touch_order' = IF GetParts(k).memHit \/ GetParts(k).diskHit
                          THEN Touch(touch_order, _normalize_key(k))
                          ELSE touch_order
        /\ UNCHANGED <<hist, last_set, nonCacheVars>>

NextCacheLRU ==
    \/ LruSet
    \/ LruGet

SpecCacheLRU ==
    Init /\ [][NextCacheLRU]_vars

(***************************************************************************)
(*                  Claims about AdvancedCacheManager                      *)
(***************************************************************************)

\* C1: after any sequence of set calls the tracked memory-tier byte total
\* (stats.size_bytes.memory) never exceeds memory_max_size, and the
\* eviction counter never decreases.           (checked under SpecCacheSets)
C1_CapacityInvariant ==
    [][/\ stats_size_mem' <= memory_max_size
       /\ stats_evictions' >= stats_evictions]_vars

\* C8: set(k, v, ttl) followed immediately by get(k) returns v, for every
\* priority, value size and prior state of the tiers. (checked under SpecCache)
C8_RoundTrip ==
    hist.op = "set_get" => hist.ret = last_set[hist.key].value

\* C9: get never returns the value of an entry whose expires_at has passed,
\* and once the clock is beyond the expiry of the latest set(k, v, ttl=T),
\* get(k) returns absent.                            (checked under SpecCache)
C9_Expiry ==
    hist.op \in {"get", "set_get"} =>
        /\ hist.ret # Absent /\ hist.ret_expires # NoExpiry => now <= hist.ret_expires
        /\ (/\ last_set[hist.key] # NoEntry
            /\ last_set[hist.key].expires_at # NoExpiry
            /\ now > last_set[hist.key].expires_at) => hist.ret = Absent

\* position of a digest in the order of last touch
TouchRank(order, d) ==
    CHOOSE i \in 1..Len(order) : order[i] = d

\* C10: whenever an insert evicts, the victims are the least recently
\* touched keys: no key is evicted while a key touched less recently than it
\* (other than the key being inserted) stays.      (checked under SpecCacheLRU)
C10_EvictionFollowsRecency ==
    [][stats_evictions' > stats_evictions =>
         \A a, b \in MemKeys(memory_cache) :
            (/\ a # b
             /\ a \notin MemKeys(memory_cache')
             /\ b \in MemKeys(memory_cache')
             /\ b # touch_order'[Len(touch_order')])
            => TouchRank(touch_order, a) < TouchRank(touch_order, b)]_vars

(***************************************************************************)
(*                     Claims about DeepSeekClient                         *)
(***************************************************************************)

\* no call_model invocation is in flight
Quiescent ==
    \A c \in CallIds : calls[c].pc \in {"idle", "done"}

\* C2: the network state becomes 'degraded' only after at least
\* max_failures consecutive call_model invocations have failed with no
\* successful one in between, and each failed invocation raises the
\* consecutive-failure count by exactly one.        (checked under SpecClient)
C2_DegradedAfterMaxFailures ==
    /\ network_status = "degraded" => failed_run >= _max_failures
    /\ Quiescent => consecutive_failures = failed_run

\* C3: an invocation that starts while the state is 'degraded' and finds no
\* unexpired cache entry returns the offline reply at once and makes no
\* network attempt.                                 (checked under SpecClient)
C3_DegradedSkipsNetwork ==
    \A c \in CallIds :
        (calls[c].started_degraded /\ ~calls[c].cache_hit) =>
            /\ calls[c].pc = "done"
            /\ calls[c].result = "offline"
            /\ ~calls[c].attempted

C3_Witness ==
    \E c \in CallIds :
        /\ calls[c].started_degraded
        /\ ~calls[c].cache_hit
        /\ calls[c].pc = "done"
        /\ calls[c].result = "offline"

\* C4: once the client is 'degraded' and the endpoint answers every request
\* from then on, some later invocation succeeds and the state returns to
\* 'healthy' with the failure counter at zero.  (checked under SpecClientFair)
C4_DegradedRecovers ==
    [](network_status = "degraded" /\ endpoint_ok
         => <>(network_status = "healthy" /\ consecutive_failures = 0))

(***************************************************************************)
(*            Claims about admission control in process_case               *)
(***************************************************************************)

\* the requests of a class that are inside their gated handler
InHandler(mode) ==
    {r \in RequestIds : /\ requests[r].mode = mode
                        /\ requests[r].pc \in {"handler", "in_client"}}

\* the requests that hold a permit of the model client's own semaphore
HoldsClientPermit(r) ==
    calls[r].pc \in {"rate_limit", "request", "backoff", "failover_sleep"}

\* C5: at every moment the number of process_case requests inside the gated
\* handler of a route class is at most the configured limit of that class;
\* with COMPLEX limit 1 at most one complex handler runs at a time.
\*                                                  (checked under SpecAgent)
C5_AdmissionBound ==
    \A m \in {"SIMPLE", "COMPLEX"} : Cardinality(InHandler(m)) <= limits[m]

\* complex limit 1: one complex request is in its handler, another one waits
\* for the slot, and a third has already been through
C5_Witness ==
    /\ limits["COMPLEX"] = 1
    /\ Cardinality(InHandler("COMPLEX")) = 1
    /\ \E r \in RequestIds : requests[r].mode = "COMPLEX" /\ requests[r].pc = "admission"
    /\ \E r \in RequestIds : requests[r].mode = "COMPLEX" /\ requests[r].pc = "returned"

\* C6: once every issued process_case call has returned, the in-use count
\* of every route class is zero, whether the gated work succeeded or raised.
\*                                                  (checked under SpecAgent)
C6_NoSlotLeak ==
    (\A r \in RequestIds : requests[r].pc = "returned")
        => \A m \in Modes : in_use(m) = 0

\* every call has returned, one of them after its handler raised and one
\* with a model reply
C6_Witness ==
    /\ \A r \in RequestIds : requests[r].pc = "returned"
    /\ \E r \in RequestIds : requests[r].error
    /\ \E r \in RequestIds : ~requests[r].error /\ requests[r].reply = "model"

\* C7: a request never waits on a resource held by requests of the other
\* class: one that waits at admission finds its own class's slots all taken
\* by requests of its own class, and one that waits at the model client's
\* semaphore finds every permit of it held by requests of its own class.
\*                                                  (checked under SpecAgent)
C7_ClassIsolation ==
    \A r \in RequestIds :
        /\ (requests[r].pc = "admission" /\ ~SemaphoreFree(class_sem[requests[r].mode]))
              => Cardinality(InHandler(requests[r].mode)) = limits[requests[r].mode]
        /\ (calls[r].pc = "wait_sem" /\ client_sem = 0)
              => \A h \in RequestIds :
                    HoldsClientPermit(h) => requests[h].mode = requests[r].mode

\* complex requests hold every permit of the model client while a simple
\* request has been admitted, served and returned
C7_Witness ==
    /\ client_sem = 0
    /\ Cardinality({r \in RequestIds : requests[r].mode = "COMPLEX"
                                        /\ HoldsClientPermit(r)}) = ClientSemaphoreLimit
    /\ \E r \in RequestIds : requests[r].mode = "SIMPLE" /\ requests[r].pc = "returned"

(***************************************************************************)
(*            Further claims about AdvancedCacheManager                    *)
(***************************************************************************)

\* C11: after any sequence of set and get calls no entry whose size is at or
\* above the ceiling memory_max_size // 10 resides in the memory tier.
\*                                                  (checked under SpecCache)
C11_SizeCeiling ==
    \A i \in 1..Len(memory_cache) :
        memory_cache[i].size_bytes < memory_max_size \div 10

(***************************************************************************)
(*                 Further claims about DeepSeekClient                     *)
(***************************************************************************)

\* C12: a call_model whose request has an unexpired entry in the request
\* cache returns the cached response at once, with no semaphore acquisition,
\* rate-limit wait or network attempt, whatever the network state.
\*                                                  (checked under SpecClient)
C12_CacheFirst ==
    \A c \in CallIds :
        calls[c].cache_hit =>
            /\ calls[c].pc = "done"
            /\ calls[c].result = "cached"
            /\ ~calls[c].attempted

\* a cached request is served from the cache while the client is degraded
C12_Witness ==
    \E c \in CallIds :
        /\ calls[c].cache_hit
        /\ calls[c].started_degraded
        /\ calls[c].result = "cached"

\* a task starts a network request in this step
StartsRequest(c) ==
    /\ calls'[c].pc = "request"
    /\ \/ calls[c].pc # "request"
       \/ calls'[c].attempt # calls[c].attempt

\* C13: any two network requests sent to the same model identifier start at
\* least _min_interval apart, retry and failover attempts included.
\*                                             (checked under SpecClientTimed)
C13_RateLimit ==
    [][\A c \in CallIds :
          StartsRequest(c) =>
              \/ last_sent[Target(calls'[c])] = Never
              \/ clock' - last_sent[Target(calls'[c])] >= _min_interval]_vars

C15_RetryCeiling ==
    \A c \in CallIds :
        /\ \A m \in ModelIds : tries[c][m] <= max_retries
        /\ calls[c].pc = "request" => Target(calls[c]) \notin nonretryable[c]

(***************************************************************************)
(* Claims about the truncation of messages                                 *)
(***************************************************************************)
\* the estimated tokens of a message list, as the caller would count them
RECURSIVE SumTokens(_)
SumTokens(messages) ==
    IF messages = <<>> THEN 0
    ELSE _count_tokens(Head(messages)) + SumTokens(Tail(messages))

\* C16: whatever the message list and max_tokens, the estimated tokens of
\* the messages _truncate_messages_to_token_limit returns (the truncation
\* marker included) sum to at most max_tokens.
C16_TokenCeiling ==
    trunc_done => SumTokens(trunc_out) <= trunc_max

(***************************************************************************)
(* Claims about the outcome of call_model                                  *)
(***************************************************************************)
\* every invocation that has entered call_model comes to its end
C17_Terminates ==
    \A c \in ClientTasks : (calls[c].pc # "idle") ~> (calls[c].pc = "done")

\* C17: every call_model invocation terminates and returns a text (the
\* model's response, a cached one or an offline fallback text) without
\* raising, whatever the network attempts end in.
C17_ReturnsText ==
    \A c \in CallIds :
        calls[c].pc = "done" => calls[c].result \in {"model", "cached", "offline"}

(***************************************************************************)
(* Claims about EnhancedRouter.classify                                    *)
(***************************************************************************)
\* C18: simple rules are checked before complex rules, and rules before
\* the model tier and the fallback: a query matching a rule is classified
\* by that rule alone, no model call is issued and the fallback test is
\* not consulted.
C18_CascadeOrder ==
    LET q == strip(last_classify.query)
        o == last_classify.outcome
    IN  classify_calls > 0 =>
          /\ simple_patterns(q) =>
                o = ClassifyOutcome("SIMPLE", "rule_hit_simple", FALSE, FALSE)
          /\ (~simple_patterns(q) /\ complex_patterns(q)) =>
                o = ClassifyOutcome("COMPLEX", "rule_hit_complex", FALSE, FALSE)

\* a query matching both lists was classified by a router with a model tier
C18_Witness ==
    /\ last_classify.query = "bug"
    /\ router_client # "none"
    /\ last_classify.outcome.counter = "rule_hit_simple"

\* C19: when no rule matches and the model-tier call raises, the failure
\* stays inside classify, which returns exactly the fallback result.
C19_ModelFailureFallsBack ==
    LET q == strip(last_classify.query)
        o == last_classify.outcome
    IN  (/\ classify_calls > 0
         /\ q # ""
         /\ ~simple_patterns(q)
         /\ ~complex_patterns(q)
         /\ router_client # "none"
         /\ last_classify.answer = "raise")
        => o.result = (IF fallback_complex(q) THEN "COMPLEX" ELSE "SIMPLE")

\* the model call raised for a query with a question mark
C19_Witness ==
    /\ last_classify.query = "refund policy?"
    /\ last_classify.answer = "raise"
    /\ last_classify.outcome.model_called
    /\ last_classify.outcome.result = "COMPLEX"

\* the total of the counters of a stats mapping
RECURSIVE SumStats(_, _)
SumStats(stats, keys) ==
    IF keys = {} THEN 0
    ELSE LET k == CHOOSE x \in keys : TRUE
         IN  stats[k] + SumStats(stats, keys \ {k})

\* C20: every classify call increments exactly one counter by one, so the
\* counters sum to the number of calls made.
C20_CountersSum ==
    SumStats(router_stats, StatKeys) = classify_calls

ExplainedReplies ==
    {"model", "cached", "no_knowledge", "offline", "busy", "unavailable",
     "system_error"}

\* C23: process_case never raises and never returns an empty reply: for
\* every combination of router, retrieval and model-client outcomes the
\* reply returned is model content, the no-knowledge message or an explicit
\* notice.                                           (checked under SpecCase)
C23_ReplyExplained ==
    \A r \in RequestIds :
        requests[r].pc = "returned" => requests[r].reply \in ExplainedReplies

\* one request came back with the system-error notice after its handler
\* raised, another with the unavailable notice after three generation calls
\* raised
C23_Witness ==
    /\ \E r \in RequestIds : /\ requests[r].pc = "returned"
                             /\ requests[r].error
                             /\ requests[r].reply = "system_error"
    /\ \E r \in RequestIds : /\ requests[r].pc = "returned"
                             /\ requests[r].gen_attempts = generation_tries
                             /\ requests[r].reply = "unavailable"

(***************************************************************************)
(*            Claims about OptimizedVectorRAGTool.search                   *)
(***************************************************************************)
\* the bound a top_k argument puts on the number of results
RequestedTopK(top_k) ==
    IF top_k = None_k THEN TopKConfigured ELSE top_k

\* the last call ran a search of its own (no cache hit, no failed start)
Computed ==
    rag_last.path \in {"vector", "vector_failed", "fallback"}

\* C24: along every result sequence of the semantic (non-fallback) path the
\* scores are non-increasing and every returned item's score is strictly
\* above the configured rerank_threshold.  (The only score an item carries
\* is 'similarity'.)                               (checked under SpecVector)
C24_RerankOrdered ==
    rag_last.path = "vector" =>
        /\ \A i \in 1..(Len(rag_last.results) - 1) :
              rag_last.results[i].similarity >= rag_last.results[i + 1].similarity
        /\ \A i \in 1..Len(rag_last.results) :
              rag_last.results[i].similarity > rag_rerank

\* C25: a chunk whose similarity to the query is at or below the similarity
\* threshold never passes stage 1: it is in no result of the vector path,
\* fresh or served from the query cache.           (checked under SpecVector)
C25_ThresholdExclusion ==
    rag_last.path \in {"vector", "cache"} =>
        \A i \in 1..Len(rag_last.results) :
            rag_sims[rag_last.results[i].text] > similarity_threshold

\* a chunk exactly at the threshold was within reach of top_k = 3 and was
\* left out, while a chunk above the threshold was returned
C25_Witness ==
    /\ rag_last.path = "vector"
    /\ rag_last.top_k = 3
    /\ Len(rag_last.results) >= 1
    /\ \E c \in Chunks :
          /\ rag_sims[c] = similarity_threshold
          /\ \A i \in 1..Len(rag_last.results) : rag_last.results[i].text # c

\* C26: search(query, top_k=k) returns at most k results on every path:
\* vector search, lexical fallback and query-cache hit.
\*                                                    (checked under SpecRag)
C26_AtMostTopK ==
    (rag_last.path # "none" /\ rag_last.error = "none")
        => Len(rag_last.results) <= RequestedTopK(rag_last.top_k)

\* C27: when the embedding backend is unavailable or the vector path throws,
\* search does not raise and returns the case-insensitive substring
\* matches, each with score 1.0 and the source tag text_match_fallback.
\*                                                    (checked under SpecRag)
C27_LexicalFallback ==
    (/\ rag_last.path \in {"init", "fallback", "vector_failed"}
     /\ rag_backend = "none" \/ rag_last.path = "vector_failed")
    => /\ rag_last.error = "none"
       /\ \A i \in 1..Len(rag_last.results) :
             /\ rag_last.results[i].similarity = text_match_similarity
             /\ rag_last.results[i].source = "text_match_fallback"
             /\ \E j \in 1..Len(text_matches(lower(rag_last.query))) :
                   rag_last.results[i].text = text_matches(lower(rag_last.query))[j]

\* C28: when the knowledge file is missing, initialization fails with the
\* KnowledgeBaseNotFound error kind, whatever the backend and model name.
\*                                                    (checked under SpecRag)
C28_KnowledgeBaseNotFound ==
    rag_last.path = "init" => rag_last.error = "KnowledgeBaseNotFoundError"

\* C29: with an empty or absent knowledge base every search returns an
\* empty sequence and does not raise, the first one and every later one.
\*                                                    (checked under SpecRag)
C29_EmptyKnowledgeBase ==
    (rag_kb \in {"absent", "empty"} /\ rag_last.path # "none")
        => rag_last.error = "none" /\ rag_last.results = <<>>

\* C30: a search repeated with the same (query, top_k) within cache_ttl of
\* the search that computed it is served from the query cache with the same
\* results, whatever those were; after cache_ttl it is computed again.
\*                                                    (checked under SpecRag)
C30_QueryCache ==
    (rag_last.path \notin {"none", "init"} /\ rag_last.previous.cached_at # Never)
        => IF rag_last.at - rag_last.previous.cached_at < rag_cache_ttl
           THEN /\ rag_last.path = "cache"
                /\ rag_last.results = rag_last.previous.results
           ELSE Computed

(***************************************************************************)
(* SpecRetry: handle_exception on one exception of any class and text.     *)
(***************************************************************************)
baseVars ==
    <<componentVars, truncVars, routerVars, peerVars, ragVars>>

InitBase ==
    /\ CacheInit
    /\ ClientInit
    /\ TimeInit
    /\ TraceInit
    /\ AgentInit(simple_limit_default, complex_limit_default)
    /\ TruncIdle
    /\ RouterInit("DeepSeekClient")
    /\ PeerInit
    /\ RagIdle

InitRetry ==
    /\ InitBase
    /\ WorkersInit
    /\ ChunkIdle
    /\ LockIdle
    /\ \E class \in ExceptionClasses, text \in Texts : RetryInit(class, text)

DoHandleException ==
    HandleException /\ UNCHANGED <<baseVars, workerVars, chunkVars, lockVars>>

SpecRetry ==
    InitRetry /\ [][DoHandleException]_vars

\* C31: should_retry is false for every KnowledgeBaseNotFoundError, whatever
\* knowledge path it carries
C31_NotRetryable ==
    (handled # NotHandled /\ raised.class = "KnowledgeBaseNotFoundError")
        => ~handled.should_retry

(***************************************************************************)
(* SpecWorkers: the pool threads search one lazily loaded tool while time  *)
(* passes, the knowledge file is edited and the process is restarted.      *)
(***************************************************************************)
InitWorkers ==
    /\ InitOthers
    /\ RagInit("docs", "numpy", "shibing624/text2vec-base-chinese", 1, SimsRag)

\* what the threads of the knowledge engine leave alone
nonWorkerVars ==
    <<componentVars, truncVars, routerVars, peerVars, retryVars, chunkVars, lockVars>>

ThreadCall ==
    \E t \in Workers, q \in WorkerQueries : WorkerCall(t, q) /\ UNCHANGED nonWorkerVars

ThreadEnsure ==
    \E t \in Workers : WorkerEnsure(t) /\ UNCHANGED nonWorkerVars

ThreadInitDecide ==
    \E t \in Workers : InitDecide(t) /\ UNCHANGED nonWorkerVars

ThreadBuildChunks ==
    \E t \in Workers : BuildChunks(t) /\ UNCHANGED nonWorkerVars

ThreadBuildEmbeddings ==
    \E t \in Workers : BuildEmbeddings(t) /\ UNCHANGED nonWorkerVars

ThreadCacheIndex ==
    \E t \in Workers : CacheIndex(t) /\ UNCHANGED nonWorkerVars

ThreadLoadChunks ==
    \E t \in Workers : LoadChunks(t) /\ UNCHANGED nonWorkerVars

ThreadLoadEmbeddings ==
    \E t \in Workers : LoadEmbeddings(t) /\ UNCHANGED nonWorkerVars

ThreadInitMark ==
    \E t \in Workers : InitMark(t) /\ UNCHANGED nonWorkerVars

ThreadCheck ==
    \E t \in Workers : WorkerCheck(t) /\ UNCHANGED nonWorkerVars

ThreadRead ==
    \E t \in Workers : WorkerRead(t) /\ UNCHANGED nonWorkerVars

ThreadCompute ==
    \E t \in Workers : WorkerCompute(t) /\ UNCHANGED nonWorkerVars

ThreadInsert ==
    \E t \in Workers : WorkerInsert(t) /\ UNCHANGED nonWorkerVars

ThreadIterate ==
    \E t \in Workers : WorkerIterate(t) /\ UNCHANGED nonWorkerVars

ThreadDelete ==
    \E t \in Workers : WorkerDelete(t) /\ UNCHANGED nonWorkerVars

ThreadReturn ==
    \E t \in Workers : WorkerReturn(t) /\ UNCHANGED nonWorkerVars

ThreadFileChange ==
    KnowledgeFileChange /\ UNCHANGED nonWorkerVars

ThreadRestart ==
    ToolRestart /\ UNCHANGED nonWorkerVars

ThreadTick ==
    WorkerTick /\ UNCHANGED nonWorkerVars

NextWorkers ==
    \/ ThreadCall
    \/ ThreadEnsure
    \/ ThreadInitDecide
    \/ ThreadBuildChunks
    \/ ThreadBuildEmbeddings
    \/ ThreadCacheIndex
    \/ ThreadLoadChunks
    \/ ThreadLoadEmbeddings
    \/ ThreadInitMark
    \/ ThreadCheck
    \/ ThreadRead
    \/ ThreadCompute
    \/ ThreadInsert
    \/ ThreadIterate
    \/ ThreadDelete
    \/ ThreadReturn
    \/ ThreadFileChange
    \/ ThreadRestart
    \/ ThreadTick

SpecWorkers ==
    InitWorkers /\ [][NextWorkers]_vars

\* C32: concurrent search calls on one tool all complete without error: no
\* interleaving of query-cache insertion and cleanup makes a search raise
C32_SearchesComplete ==
    \A t \in Workers : workers[t].pc # "raised"

\* C34: no search is answered from an index older than the knowledge file:
\* when the file's modification time is newer than the cached index's, the
\* index is rebuilt before the next search uses it
C34_IndexFresh ==
    \A t \in Workers : ~workers[t].stale

\* C40: with lazy loading and concurrent searches, initialization runs at
\* most once, and no search reads the chunk list or the embeddings while an
\* initialization is writing them
C40_ExclusiveInit ==
    /\ init_runs <= 1
    /\ \A t \in Workers : ~workers[t].overlap

(***************************************************************************)
(* SpecChunk: one call of _chunk_documents on any explored document.       *)
(***************************************************************************)
InitChunk ==
    /\ InitBase
    /\ RetryIdle
    /\ WorkersInit
    /\ LockIdle
    /\ chunk_in \in Documents
    /\ chunk_out = <<>>
    /\ chunk_done = FALSE

DoChunkDocuments ==
    ChunkDocuments /\ UNCHANGED <<baseVars, retryVars, workerVars, lockVars>>

SpecChunk ==
    InitChunk /\ [][DoChunkDocuments]_vars

\* C35: every chunk produced by chunking has text of at least the minimum
\* chunk length, from a sliding window or from a short paragraph taken whole
C35_MinChunkLength ==
    chunk_done =>
        \A i \in 1..Len(chunk_out) : chunk_out[i].length >= min_chunk_length

\* C36: byte accounting is exact: the tracked memory-tier byte total equals
\* the sum of size_bytes over the entries in the memory tier
C36_ByteAccounting ==
    stats_size_mem = SumSizes(memory_cache)

\* C37: latest write wins across tiers: a get(k) that returns a value
\* returns the value of the latest set(k)
C37_LatestWriteWins ==
    (hist.op \in {"get", "set_get"} /\ hist.ret # Absent)
        => hist.ret = last_set[hist.key].value

(***************************************************************************)
(* SpecCacheClear: set, get and both forms of clear.                       *)
(***************************************************************************)
NextCacheClear ==
    \/ DoSet
    \/ DoGet
    \/ DoClearAll
    \/ DoClearPattern

SpecCacheClear ==
    Init /\ [][NextCacheClear]_vars

\* C38: clear(pattern) removes exactly the entries whose key contains the
\* pattern (get returns absent for them and the stored value for the
\* others); clear() without a pattern leaves every key absent
C38_ClearPattern ==
    /\ hist.op = "clear_pattern" =>
          \A k \in KeysRW :
             IF contains(k, hist.key) THEN GetParts(k).ret = Absent
             ELSE GetParts(k).ret = hist.before[k]
    /\ hist.op = "clear" => \A k \in KeysRW : GetParts(k).ret = Absent

\* C39: a SIMPLE request that process_case answers with the canned busy
\* reply had a model call that was issued and failed; with a healthy client
\* and an answering endpoint the reply is the model's text.
C39_SimpleReplyIsModelText ==
    \A r \in CaseTasks :
        (requests[r].pc = "returned" /\ requests[r].mode = "SIMPLE"
            /\ requests[r].reply = "busy")
        => (calls[r].pc = "done" /\ calls[r].result \notin {"ok", "cached"})

(***************************************************************************)
(* SpecLock: a foreground caller of set / delete / clear and the cleanup   *)
(* thread of one AdvancedCacheManager, over any starting cache_dir.        *)
(***************************************************************************)
nonLockVars ==
    <<baseVars, retryVars, workerVars, chunkVars>>

InitLock ==
    /\ InitBase
    /\ RetryIdle
    /\ WorkersInit
    /\ ChunkIdle
    /\ \E files \in SUBSET CacheFiles : LockInit(files)

LockForegroundAcquire ==
    \E op \in ForegroundOps, file \in CacheFiles :
        ForegroundAcquire(op, file) /\ UNCHANGED nonLockVars

LockForegroundMutate ==
    ForegroundMutate /\ UNCHANGED nonLockVars

LockForegroundRelease ==
    ForegroundRelease /\ UNCHANGED nonLockVars

LockCleanupWake ==
    CleanupWake /\ UNCHANGED nonLockVars

LockCleanupExpired ==
    \E expired \in SUBSET CacheFiles : _cleanup_expired(expired) /\ UNCHANGED nonLockVars

LockManageDiskScan ==
    ManageDiskScan /\ UNCHANGED nonLockVars

LockManageDiskEvict ==
    ManageDiskEvict /\ UNCHANGED nonLockVars

NextLock ==
    \/ LockForegroundAcquire
    \/ LockForegroundMutate
    \/ LockForegroundRelease
    \/ LockCleanupWake
    \/ LockCleanupExpired
    \/ LockManageDiskScan
    \/ LockManageDiskEvict

SpecLock ==
    InitLock /\ [][NextLock]_vars

\* C33: every change of the cache manager's shared state (the disk entries,
\* the eviction statistics), by a foreground operation or by the cleanup
\* thread's expiry sweep and disk-size management, is made by a thread that
\* holds the manager's lock
C33_MutationsUnderLock ==
    mutation.held

=============================================================================
